---- MODULE Spec2Model ----
(***************************************************************************)
(* QA Assist: test-case generation from Jira tickets with a file-backed    *)
(* cache (features/testCaseGeneration/generator.py), Playwright code       *)
(* generation with its own cache (features/codeGenerator/generator.py),    *)
(* and the Streamlit session that drives them (app.py).                    *)
(*                                                                         *)
(* Texts are sequences of one-character strings.  A Python dict is a       *)
(* record whose DOMAIN is the set of keys present; dict.get(k, default)    *)
(* is Get.  The 5-tuple returned by the generation functions is a record   *)
(* with the fields df, raw, error, test_cases, context.                    *)
(***************************************************************************)
EXTENDS Integers, Sequences, FiniteSets, TLC

VARIABLES
    cache,          \* testcaseGenerated/<ticket>_test_case.json, per ticket id
    codeCache,      \* codeGenerated/[<ticket>_]<test case>_code.json, per key
    session,        \* st.session_state of the one browser session
    last,           \* the last call: what it received, did and returned
    hist,           \* per ticket: formatted test cases of the last call that
                    \* returned them and whose cache write succeeded
    disk,           \* the bytes of one ticket's cache file, as two processes see it
    procs,          \* two processes inside generate_test_cases for that ticket
    _recorder_instance, \* recorder.py's module global: None or the BrowserRecorder
    codegen         \* a PlaywrightCodegenRecorder object used through its own methods

vars == <<cache, codeCache, session, last, hist, disk, procs, _recorder_instance, codegen>>

-----------------------------------------------------------------------------
(* Python values *)

EmptyDict == [k \in {} |-> ""]

Get(d, k, default) == IF k \in DOMAIN d THEN d[k] ELSE default

\* Python truthiness of a text / list
Truthy(s) == Len(s) > 0

RECURSIVE Flatten(_)
Flatten(ss) == IF Len(ss) = 0 THEN <<>> ELSE Head(ss) \o Flatten(Tail(ss))

-----------------------------------------------------------------------------
(* extract_ticket_id: re.findall(r'\b([A-Z]+-\d+)\b', text)[0] *)

Upper == {"A", "B"}
Digit == {"1", "2"}
Lower == {"x"}
IsWord(c) == c \in Upper \cup Digit \cup Lower

\* \b between position p and p+1 (p = 0 is the start, p = Len the end)
WordBoundary(text, p) ==
    (p > 0 /\ IsWord(text[p])) # (p < Len(text) /\ IsWord(text[p + 1]))

\* the ends k of the matches of \b[A-Z]+-\d+\b that start at index i
MatchEnds(text, i) ==
    { k \in i..Len(text) :
        /\ WordBoundary(text, i - 1)
        /\ \E j \in (i + 1)..(k - 1) :
              /\ \A p \in i..(j - 1) : text[p] \in Upper
              /\ text[j] = "-"
              /\ \A p \in (j + 1)..k : text[p] \in Digit
        /\ WordBoundary(text, k) }

Max(S) == CHOOSE m \in S : \A n \in S : n <= m
Min(S) == CHOOSE m \in S : \A n \in S : m <= n

NoTicket == <<>>

extract_ticket_id(feature_text) ==
    LET starts == { i \in 1..Len(feature_text) : MatchEnds(feature_text, i) # {} }
    IN  IF starts = {} THEN NoTicket
        ELSE SubSeq(feature_text, Min(starts), Max(MatchEnds(feature_text, Min(starts))))

-----------------------------------------------------------------------------
(* Inputs *)

T_A      == <<"A", "-", "1">>
T_B      == <<"x", " ", "B", "-", "2">>
T_AB     == <<"A", "-", "1", " ", "B", "-", "2">>
T_glued  == <<"x", "A", "-", "1">>
T_blank  == <<" ">>

FeatureTexts == {T_A, T_B, T_AB, T_glued, T_blank}

TicketIds == {extract_ticket_id(t) : t \in FeatureTexts} \ {NoTicket}

-----------------------------------------------------------------------------
(* Python None, and the values the collaborators hand to the core *)

PyNone == [kind |-> "none"]

\* (first_name, last_name, provider) of a call and what
\* auth_store.load_user_credentials returns for that user
Env(first, lastn, stored, provider) ==
    [first_name |-> first, last_name |-> lastn, stored |-> stored, provider |-> provider]

CredsAll     == [openai_key |-> "k1", anthropic_key |-> "k2",
                 jira_email |-> "e", jira_token |-> "t"]
CredsOtherKey == [anthropic_key |-> "k2", jira_email |-> "e", jira_token |-> "t"]

EnvOk        == Env("ann", "lee", CredsAll, "OpenAI")
Envs == { EnvOk,
          Env("", "lee", CredsAll, "OpenAI"),
          Env("ann", "lee", EmptyDict, "OpenAI"),
          Env("ann", "lee", CredsOtherKey, "OpenAI") }

\* get_jira_ticket's (is_valid, ticket_data)
JiraFail == [ok |-> FALSE, data |-> EmptyDict]
JiraOk(data) == [ok |-> TRUE, data |-> data]
J_full     == [key |-> <<"K">>,
               fields |-> [project |-> [name |-> <<"P">>],
                           summary |-> <<"S">>, description |-> <<"D">>]]
J_bare     == EmptyDict
J_badshape == [fields |-> [nondict |-> TRUE]]
JiraResponses == {JiraFail, JiraOk(J_full), JiraOk(J_bare), JiraOk(J_badshape)}

\* test cases as the model writes them
TC_full    == [id |-> "TC-01", title |-> "t1",
               steps |-> <<"s1", "s2">>, expected_results |-> <<"e1">>]
TC_bare    == [steps |-> <<"s3">>, expected_results |-> <<"e3">>]
TC_nondict == [nondict |-> TRUE]
TC_nosteps == [id |-> "TC-09", title |-> "t9"]

\* crew.kickoff(): it raises, or returns a text.  Of a text the model keeps
\* what the code can tell apart: raw (its identity), parse (the outcome of
\* the brace scan and json.loads: "error" = JSONDecodeError, "nondict" = valid
\* JSON that is no object, "dict"), data (the object) and legacy (what
\* re.search(r"(\[\s*\{.*?\}\s*\])", raw) and json.loads of it give:
\* "none" = no match, "invalid" = a match that is no JSON, "items").
KickoffRaises == [k |-> "raise"]
Text(raw, parse, data, legacy, items) ==
    [k |-> "text", raw |-> raw, parse |-> parse, data |-> data,
     legacy |-> legacy, items |-> items]
Obj(raw, data) == Text(raw, "dict", data, "none", <<>>)

O_ready1    == Obj("o1", [status |-> "ready", notes |-> "n1", test_cases |-> <<TC_full>>])
O_ready2    == Obj("o2", [status |-> "ready", test_cases |-> <<TC_bare, TC_full>>])
O_empty     == Obj("o4", [status |-> "ready", notes |-> "n4", test_cases |-> <<>>])
O_missing   == Obj("o5", [status |-> "ready"])
O_nosteps   == Obj("o15", [status |-> "ready", notes |-> "n15", test_cases |-> <<TC_nosteps>>])
O_badtc     == Obj("o6", [status |-> "ready", test_cases |-> <<TC_full, TC_nondict>>])
O_nmi       == Obj("o7", [status |-> "needs_more_info", notes |-> "n7", questions |-> <<"q1">>])
O_invalid   == Obj("o9", [status |-> "invalid", notes |-> "n9"])
O_weird     == Obj("o10", [status |-> "weird", test_cases |-> <<TC_full>>])
O_nostatus  == Obj("o11", [notes |-> "n11"])
O_nondict   == Text("o12", "nondict", EmptyDict, "none", <<>>)
O_nojson    == Text("o13", "error", EmptyDict, "none", <<>>)
O_legacy    == Text("o14", "error", EmptyDict, "items",
                    << [step |-> "s5", expected_result |-> "e5"], [step |-> "s6"] >>)

LLMOutputs == { KickoffRaises, O_ready1, O_ready2, O_empty, O_missing,
                O_badtc, O_nmi, O_invalid, O_weird, O_nostatus,
                O_nondict, O_nojson, O_legacy }

\* a cache file: absent, not JSON, JSON that is no object, or a JSON object
Absent      == [kind |-> "absent"]
Garbage     == [kind |-> "garbage"]
JsonNonDict(truthy) == [kind |-> "nondict", truthy |-> truthy]
JsonDict(d) == [kind |-> "dict", d |-> d]

\* os / json outcomes of writing a file: written, open() raises (the file is
\* left as it was), json.dump raises after open() truncated the file
FsOutcomes == {"ok", "open_raises", "dump_raises"}

-----------------------------------------------------------------------------
(* features/testCaseGeneration/generator.py *)

\* a load that never finds the file
load_cached_test_cases_never(file) == PyNone

\* json.load of the ticket's file; None when there is no file or it is no JSON
load_cached_test_cases(file) ==
    IF file.kind \in {"absent", "garbage"} THEN PyNone ELSE file

\* the file after save_test_cases_to_cache(ticket_id, data); every exception
\* is caught and only printed
save_test_cases_to_cache(file, data, fs) ==
    CASE fs = "ok"          -> JsonDict(data)
      [] fs = "open_raises" -> file
      [] fs = "dump_raises" -> Garbage

\* bool(value) of a loaded JSON value
JsonTruthy(v) ==
    CASE v.kind = "none"    -> FALSE
      [] v.kind = "nondict" -> v.truthy
      [] v.kind = "dict"    -> DOMAIN v.d # {}

\* (is_valid, error_message) of get_user_credentials
get_user_credentials(env) ==
    LET c == env.stored
        has_key == \E k \in {"openai_key", "anthropic_key", "openrouter_key"} :
                       Get(c, k, "") # ""
    IN  IF env.first_name = "" \/ env.last_name = ""
          THEN [is_valid |-> FALSE, error |-> "names_required"]
        ELSE IF DOMAIN c = {}
          THEN [is_valid |-> FALSE, error |-> "no_credentials"]
        ELSE IF ~has_key
          THEN [is_valid |-> FALSE, error |-> "no_api_key"]
        ELSE IF Get(c, "jira_email", "") = "" \/ Get(c, "jira_token", "") = ""
          THEN [is_valid |-> FALSE, error |-> "no_jira_credentials"]
        ELSE [is_valid |-> TRUE, error |-> ""]

provider_key_map ==
    [OpenAI |-> "openai_key", Anthropic |-> "anthropic_key", OpenRouter |-> "openrouter_key"]

\* the credential and provider checks that open all three generation
\* functions: the error they return, "" when they pass
credential_error(env) ==
    LET uc == get_user_credentials(env)
    IN  IF ~uc.is_valid THEN uc.error
        ELSE IF env.provider \notin DOMAIN provider_key_map THEN "invalid_provider"
        ELSE IF Get(env.stored, provider_key_map[env.provider], "") = ""
          THEN "no_provider_key"
        ELSE ""

\* the rows "Step"/"Expected Result" of one test case: expected_results[i]
\* if i < len(expected_results) else ""
\* only the steps that have an expected result
FormatSteps_paired(steps, expected_results) ==
    [i \in 1..Min({Len(steps), Len(expected_results)}) |->
        [Step |-> steps[i], ExpectedResult |-> expected_results[i]]]

FormatSteps(steps, expected_results) ==
    [i \in 1..Len(steps) |->
        [Step |-> steps[i],
         ExpectedResult |-> IF i <= Len(expected_results) THEN expected_results[i] ELSE ""]]

\* tc.get(...) raises AttributeError on an element that is no dict
FormatRaises(test_cases) ==
    \E i \in 1..Len(test_cases) : "nondict" \in DOMAIN test_cases[i]

FormatTestCases(test_cases) ==
    [i \in 1..Len(test_cases) |->
        [id    |-> Get(test_cases[i], "id", ""),
         title |-> Get(test_cases[i], "title", "Untitled"),
         steps |-> FormatSteps(Get(test_cases[i], "steps", <<>>),
                               Get(test_cases[i], "expected_results", <<>>))]]

\* the DataFrame: every step row of every test case
Rows(formatted) == Flatten([i \in 1..Len(formatted) |-> formatted[i].steps])

\* the returned tuple (df, raw, error, formatted_test_cases, context_data);
\* formatted_test_cases None is <<>> (every reader tests it for truth only)
Ret(df, raw, error, tcs, ctx) ==
    [df |-> df, raw |-> raw, error |-> error, test_cases |-> tcs, context |-> ctx]

NoError  == [kind |-> "none"]
Err(kind) == [kind |-> kind]
RawEmpty == [kind |-> "empty"]
RawLLM(llm) == [kind |-> "llm", id |-> llm.raw]
RawCached(ticket_id) == [kind |-> "cached", ticket |-> ticket_id]

ErrRet(error) == Ret(<<>>, RawEmpty, error, <<>>, PyNone)

\* what a call did: its return value (or that it raised), the collaborators
\* it called, and the save_test_cases_to_cache call it made, if any
NoWrite == [ticket |-> NoTicket]
Write(ticket_id, data) == [ticket |-> ticket_id, data |-> data]
Outcome(ret, readCache, usedJira, usedLLM, write) ==
    [raised |-> FALSE, ret |-> ret, readCache |-> readCache,
     usedJira |-> usedJira, usedLLM |-> usedLLM, write |-> write]
Raises(readCache, usedJira, usedLLM) ==
    [raised |-> TRUE, ret |-> ErrRet(Err("raised")), readCache |-> readCache,
     usedJira |-> usedJira, usedLLM |-> usedLLM, write |-> NoWrite]

\* the cache file of a ticket id (any id has a path; no file until one is saved)
FileOf(files, ticket) == IF ticket \in DOMAIN files THEN files[ticket] ELSE Absent

\* the check left out
ticket_id_unchecked(ticket_id) == FALSE

\* if not ticket_id: (line 222)
ticket_id_missing(ticket_id) == ~Truthy(ticket_id)

\* every status taken for "ready"
is_ready_any(status) == TRUE

\* if status == "ready": (lines 415, 824, 1083)
is_ready(status) == status = "ready"

\* the check left out
no_test_cases_unchecked(test_cases) == FALSE

\* if not test_cases: (lines 417, 826, 1085)
no_test_cases(test_cases) == ~Truthy(test_cases)

\* a context that loses the model's questions
needs_more_info_context_no_questions(ticket_id, info, data) ==
    [ticket_id |-> ticket_id,
     jira_key |-> info.jira_key,
     jira_project |-> info.jira_project,
     jira_summary |-> info.jira_summary,
     jira_description |-> info.jira_description,
     validation_result |-> data,
     questions |-> <<>>]

\* the context_data saved with a needs_more_info result (lines 403-411)
needs_more_info_context(ticket_id, info, data) ==
    [ticket_id |-> ticket_id,
     jira_key |-> info.jira_key,
     jira_project |-> info.jira_project,
     jira_summary |-> info.jira_summary,
     jira_description |-> info.jira_description,
     validation_result |-> data,
     questions |-> Get(data, "questions", <<>>)]

\* a regeneration that asks for more information like the initial flow
unexpected_status_asks(status, llm) ==
    [kind |-> "needs_more_info", notes |-> Get(llm.data, "notes", ""),
     questions |-> Get(llm.data, "questions", <<>>)]

\* the error of a regeneration whose status is not "ready" (lines 1140-1141)
unexpected_status(status, llm) ==
    [kind |-> "unexpected_status", status |-> status, raw |-> llm.raw]

\* an error that leaves the received status out
unknown_status_unnamed(status, llm) ==
    [kind |-> "unknown_status", status |-> "", raw |-> llm.raw]

\* the error of the initial and more-info flows for a status that is none of
\* invalid, needs_more_info, ready: f"Unknown status: {status}. Raw output: {raw}"
unknown_status(status, llm) ==
    [kind |-> "unknown_status", status |-> status, raw |-> llm.raw]

\* Step 5 of generate_test_cases: the ticket information taken from
\* ticket_data; raised = fields is no dict (caught, reported as an error)
jira_info(ticket_data, ticket_id, feature_text) ==
    LET fields  == Get(ticket_data, "fields", EmptyDict)
        bad     == "nondict" \in DOMAIN fields
        summary == IF bad THEN <<>> ELSE Get(fields, "summary", <<>>)
        desc    == IF bad THEN <<>> ELSE Get(fields, "description", <<>>)
    IN  [raised |-> bad,
         jira_key |-> Get(ticket_data, "key", ticket_id),
         jira_project |-> IF bad THEN <<>>
                          ELSE Get(Get(fields, "project", EmptyDict), "name",
                                   <<"Unknown Project">>),
         jira_summary |-> summary,
         jira_description |-> IF Truthy(desc) THEN desc
                              ELSE IF Truthy(summary) THEN summary ELSE feature_text]

\* the old-format fallback of generate_test_cases (except json.JSONDecodeError)
legacy_rows(items) ==
    [i \in 1..Len(items) |->
        [Step |-> Get(items[i], "step", ""),
         ExpectedResult |-> Get(items[i], "expected_result", "")]]

legacy_cache_data(items) ==
    [status |-> "ready", notes |-> "Test cases generated (fallback format)",
     test_cases |-> << [id |-> "TC-01", title |-> "Test Case 1",
                        steps |-> [i \in 1..Len(items) |-> Get(items[i], "step", "")],
                        expected_results |->
                            [i \in 1..Len(items) |-> Get(items[i], "expected_result", "")]] >>]

\* generate_test_cases from the model output on (lines 331-497)
\* the error of another kind
not_valid_json_generic(llm) == [kind |-> "generic"]

\* f"Model did not return valid JSON. Error: {str(e)}\nRaw output:\n{raw}"
\* (lines 494, 872, 1144)
not_valid_json(llm) == [kind |-> "not_json", raw |-> llm.raw]

generate_from_output(ticket_id, info, llm) ==
    LET data   == llm.data
        status == Get(data, "status", "")
        tcs    == Get(data, "test_cases", <<>>)
        fmt    == FormatTestCases(tcs)
        out(ret, write) == Outcome(ret, TRUE, TRUE, TRUE, write)
    IN  IF llm.k = "raise" THEN out(ErrRet(Err("generic")), NoWrite)
        ELSE IF llm.parse = "error" THEN
            CASE llm.legacy = "items" ->
                   out(Ret(legacy_rows(llm.items), RawLLM(llm), NoError,
                           << [id |-> "TC-01", title |-> "Test Case 1",
                               steps |-> legacy_rows(llm.items)] >>, PyNone),
                       Write(ticket_id, legacy_cache_data(llm.items)))
              [] llm.legacy = "invalid" -> out(ErrRet(Err("generic")), NoWrite)
              [] llm.legacy = "none" -> out(ErrRet(not_valid_json(llm)), NoWrite)
        ELSE IF llm.parse = "nondict" THEN out(ErrRet(Err("generic")), NoWrite)
        ELSE IF status = "invalid" THEN
            out(ErrRet([kind |-> "invalid", notes |-> Get(data, "notes", "Invalid ticket")]),
                NoWrite)
        ELSE IF status = "needs_more_info" THEN
            out(Ret(<<>>, RawEmpty,
                    [kind |-> "needs_more_info", notes |-> Get(data, "notes", ""),
                     questions |-> Get(data, "questions", <<>>)],
                    <<>>, needs_more_info_context(ticket_id, info, data)),
                NoWrite)
        ELSE IF is_ready(status) THEN
            IF no_test_cases(tcs) THEN out(ErrRet(Err("no_test_cases_ready")), NoWrite)
            ELSE IF FormatRaises(tcs) THEN out(ErrRet(Err("generic")), NoWrite)
            ELSE out(Ret(Rows(fmt), RawLLM(llm), NoError, fmt, PyNone),
                     Write(ticket_id, [status |-> "ready", notes |-> Get(data, "notes", ""),
                                       test_cases |-> tcs]))
        ELSE out(ErrRet(unknown_status(status, llm)), NoWrite)

\* generate_test_cases(feature_text, first_name, last_name, provider, model):
\* files is the cache directory, jira and llm are what get_jira_ticket and
\* crew.kickoff answer if the call reaches them
generate_test_cases(feature_text, env, files, jira, llm) ==
    LET ticket_id   == extract_ticket_id(feature_text)
        cached_data == load_cached_test_cases(FileOf(files, ticket_id))
        cached_tcs  == Get(cached_data.d, "test_cases", <<>>)
        fmt         == FormatTestCases(cached_tcs)
        info        == jira_info(jira.data, ticket_id, feature_text)
    IN  IF credential_error(env) # ""
          THEN Outcome(ErrRet(Err(credential_error(env))), FALSE, FALSE, FALSE, NoWrite)
        ELSE IF ticket_id_missing(ticket_id)
          THEN Outcome(ErrRet(Err("no_ticket_id")), FALSE, FALSE, FALSE, NoWrite)
        ELSE IF JsonTruthy(cached_data) /\ cached_data.kind = "nondict"
          THEN Raises(TRUE, FALSE, FALSE)
        ELSE IF JsonTruthy(cached_data) /\ Truthy(cached_tcs) /\ FormatRaises(cached_tcs)
          THEN Raises(TRUE, FALSE, FALSE)
        ELSE IF JsonTruthy(cached_data) /\ Truthy(cached_tcs)
          THEN Outcome(Ret(Rows(fmt), RawCached(ticket_id), NoError, fmt, PyNone),
                       TRUE, FALSE, FALSE, NoWrite)
        ELSE IF ~jira.ok
          THEN Outcome(ErrRet(Err("jira")), TRUE, TRUE, FALSE, NoWrite)
        ELSE IF info.raised
          THEN Outcome(ErrRet(Err("jira_extract")), TRUE, TRUE, FALSE, NoWrite)
        ELSE generate_from_output(ticket_id, info, llm)

\* the description without the ticket's own
enhanced_description_additional_only(jira_description, additional_info) ==
    <<"\n\nADDITIONAL INFORMATION PROVIDED BY USER:\n">> \o additional_info \o <<"\n">>

\* enhanced_description (lines 691-695)
enhanced_description(jira_description, additional_info) ==
    jira_description \o <<"\n\nADDITIONAL INFORMATION PROVIDED BY USER:\n">> \o
    additional_info \o <<"\n">>

\* the arguments of create_validate_jira_story_task (lines 685-688, 737-743)
validation_request(context_data, additional_info) ==
    [jira_key |-> Get(context_data, "jira_key", <<>>),
     jira_project |-> Get(context_data, "jira_project", <<>>),
     jira_summary |-> Get(context_data, "jira_summary", <<>>),
     jira_description |->
         enhanced_description(Get(context_data, "jira_description", <<>>), additional_info)]

\* an outcome with the validation request the call made
Asking(o, request) ==
    [k \in DOMAIN o \cup {"asked"} |-> IF k = "asked" THEN request ELSE o[k]]

\* generate_test_cases_with_additional_info(context_data, additional_info, ...):
\* no cache read, no Jira request; asked is the ticket information handed to
\* create_validate_jira_story_task
generate_test_cases_with_additional_info(context_data, additional_info, env, llm) ==
    LET data   == llm.data
        status == Get(data, "status", "")
        tcs    == Get(data, "test_cases", <<>>)
        fmt    == FormatTestCases(tcs)
        ticket_id == Get(context_data, "ticket_id", NoTicket)
        out(ret, write) ==
            Asking(Outcome(ret, FALSE, FALSE, TRUE, write),
                   validation_request(context_data, additional_info))
    IN  IF credential_error(env) # ""
          THEN Outcome(ErrRet(Err(credential_error(env))), FALSE, FALSE, FALSE, NoWrite)
        ELSE IF llm.k = "raise" THEN out(ErrRet(Err("generic")), NoWrite)
        ELSE IF llm.parse = "error"
          THEN out(ErrRet(not_valid_json(llm)), NoWrite)
        ELSE IF llm.parse = "nondict" THEN out(ErrRet(Err("generic")), NoWrite)
        ELSE IF status = "invalid" THEN
            out(ErrRet([kind |-> "invalid", notes |-> Get(data, "notes", "Invalid ticket")]),
                NoWrite)
        ELSE IF status = "needs_more_info" THEN
            out(Ret(<<>>, RawEmpty,
                    [kind |-> "needs_more_info", notes |-> Get(data, "notes", ""),
                     questions |-> Get(data, "questions", <<>>)],
                    <<>>,
                    [k \in DOMAIN context_data \cup {"validation_result", "questions"} |->
                        CASE k = "validation_result" -> data
                          [] k = "questions" -> Get(data, "questions", <<>>)
                          [] OTHER -> context_data[k]]),
                NoWrite)
        ELSE IF is_ready(status) THEN
            IF no_test_cases(tcs) THEN out(ErrRet(Err("no_test_cases_ready")), NoWrite)
            ELSE IF FormatRaises(tcs) THEN out(ErrRet(Err("generic")), NoWrite)
            ELSE out(Ret(Rows(fmt), RawLLM(llm), NoError, fmt, PyNone),
                     IF Truthy(ticket_id)
                       THEN Write(ticket_id, [status |-> "ready",
                                              notes |-> Get(data, "notes", ""),
                                              test_cases |-> tcs])
                       ELSE NoWrite)
        ELSE out(ErrRet(unknown_status(status, llm)), NoWrite)

\* a conversion that drops the expected results
cache_test_cases_steps_only(formatted) ==
    [i \in 1..Len(formatted) |->
        [id |-> Get(formatted[i], "id", ""),
         title |-> Get(formatted[i], "title", ""),
         steps |-> [j \in 1..Len(formatted[i].steps) |-> formatted[i].steps[j].Step],
         expected_results |-> <<>>]]

\* the formatted test cases converted back to the cached format
\* (regenerate_test_cases_with_feedback, lines 1121-1130)
cache_test_cases(formatted) ==
    [i \in 1..Len(formatted) |->
        [id |-> Get(formatted[i], "id", ""),
         title |-> Get(formatted[i], "title", ""),
         steps |-> [j \in 1..Len(formatted[i].steps) |-> formatted[i].steps[j].Step],
         expected_results |->
             [j \in 1..Len(formatted[i].steps) |-> formatted[i].steps[j].ExpectedResult]]]

\* regenerate_test_cases_with_feedback(original_feature_text, current_test_cases,
\* feedback_text, ..., ticket_id): no cache read, no Jira request
regenerate_test_cases_with_feedback(original_feature_text, env, ticket_id, llm) ==
    LET data   == llm.data
        status == Get(data, "status", "")
        tcs    == Get(data, "test_cases", <<>>)
        fmt    == FormatTestCases(tcs)
        cache_ticket_id == IF Truthy(ticket_id) THEN ticket_id
                           ELSE extract_ticket_id(original_feature_text)
        out(ret, write) == Outcome(ret, FALSE, FALSE, TRUE, write)
    IN  IF credential_error(env) # ""
          THEN Outcome(ErrRet(Err(credential_error(env))), FALSE, FALSE, FALSE, NoWrite)
        ELSE IF llm.k = "raise" THEN out(ErrRet(Err("generic")), NoWrite)
        ELSE IF llm.parse = "error"
          THEN out(ErrRet(not_valid_json(llm)), NoWrite)
        ELSE IF llm.parse = "nondict" THEN out(ErrRet(Err("generic")), NoWrite)
        ELSE IF is_ready(status) THEN
            IF no_test_cases(tcs) THEN out(ErrRet(Err("no_test_cases")), NoWrite)
            ELSE IF FormatRaises(tcs) THEN out(ErrRet(Err("generic")), NoWrite)
            ELSE out(Ret(Rows(fmt), RawLLM(llm), NoError, fmt, PyNone),
                     IF Truthy(cache_ticket_id)
                       THEN Write(cache_ticket_id,
                                  [status |-> "ready",
                                   notes |-> Get(data, "notes",
                                       "Test cases regenerated based on user feedback"),
                                   test_cases |-> cache_test_cases(fmt)])
                       ELSE NoWrite)
        ELSE out(ErrRet(unexpected_status(status, llm)), NoWrite)

\* feature_text.strip() == ""
IsBlank(text) == \A i \in 1..Len(text) : text[i] = " "

\* the result dict of the handlers; the early returns of
\* handle_generate_test_cases carry no needs_more_info / context_data keys
Result(success, error, ret, tcs, nmi, ctx) ==
    [success |-> success, error |-> error, df |-> ret.df, raw |-> ret.raw,
     test_cases |-> tcs, needs_more_info |-> nmi, context_data |-> ctx]
ShortResult(success, error, ret) ==
    [success |-> success, error |-> error, df |-> ret.df, raw |-> ret.raw,
     test_cases |-> <<>>]

\* a handler's outcome: the outcome of the function it wraps with the
\* handler's result dict in place of the tuple
Handled(o, result) ==
    [raised |-> FALSE, fn_raised |-> o.raised, fn_ret |-> o.ret, result |-> result,
     readCache |-> o.readCache,
     usedJira |-> o.usedJira, usedLLM |-> o.usedLLM, write |-> o.write]
NotCalled == Outcome(ErrRet(NoError), FALSE, FALSE, FALSE, NoWrite)

fallback_test_cases(df) == << [id |-> "TC-01", title |-> "Test Case 1", steps |-> df] >>

handle_generate_test_cases(feature_text, env, files, jira, llm) ==
    LET o == generate_test_cases(feature_text, env, files, jira, llm)
        r == o.ret
    IN  IF IsBlank(feature_text)
          THEN Handled(NotCalled, ShortResult(FALSE, Err("paste_first"), ErrRet(NoError)))
        ELSE IF env.first_name = "" \/ env.last_name = ""
          THEN Handled(NotCalled, ShortResult(FALSE, Err("user_not_identified"), ErrRet(NoError)))
        ELSE IF o.raised
          THEN Handled(o, Result(FALSE, Err("unexpected"), ErrRet(NoError), <<>>, FALSE, PyNone))
        ELSE IF r.error.kind = "needs_more_info"
          THEN Handled(o, Result(FALSE, r.error, r, <<>>, TRUE, r.context))
        ELSE IF r.error # NoError
          THEN Handled(o, Result(FALSE, r.error, r, <<>>, FALSE, PyNone))
        ELSE IF r.df = <<>>
          THEN Handled(o, ShortResult(FALSE, Err("no_test_cases_generated"), r))
        ELSE Handled(o, Result(TRUE, NoError, r,
                               IF Truthy(r.test_cases) THEN r.test_cases
                               ELSE fallback_test_cases(r.df),
                               FALSE, PyNone))

handle_regenerate_test_cases(original_feature_text, current_test_cases, feedback_text, env, ticket_id, llm) ==
    LET o == regenerate_test_cases_with_feedback(original_feature_text, env, ticket_id, llm)
        r == o.ret
        fail(kind) == Handled(NotCalled,
                              Result(FALSE, Err(kind), ErrRet(NoError), <<>>, FALSE, PyNone))
    IN  IF IsBlank(feedback_text) THEN fail("feedback_required")
        ELSE IF env.first_name = "" \/ env.last_name = "" THEN fail("user_not_identified")
        ELSE IF ~Truthy(current_test_cases) THEN fail("no_existing_test_cases")
        ELSE IF o.raised
          THEN Handled(o, Result(FALSE, Err("unexpected"), ErrRet(NoError), <<>>, FALSE, PyNone))
        ELSE IF r.error # NoError
          THEN Handled(o, Result(FALSE, r.error, r, <<>>, FALSE, PyNone))
        ELSE IF r.df = <<>>
          THEN Handled(o, Result(FALSE, Err("no_test_cases_generated"), r, <<>>, FALSE, PyNone))
        ELSE Handled(o, Result(TRUE, NoError, r,
                               IF Truthy(r.test_cases) THEN r.test_cases
                               ELSE fallback_test_cases(r.df),
                               FALSE, PyNone))

\* get_ticket_history_entry: the first entry of the ticket, or None
get_ticket_history_entry(ticket_history, ticket_id) ==
    LET found == { i \in 1..Len(ticket_history) : ticket_history[i].ticket_id = ticket_id }
    IN  IF found = {} THEN PyNone ELSE ticket_history[Min(found)]

\* update_ticket_in_history with no search for the ticket's entry
update_ticket_in_history_append(ticket_history, ticket_id, ticket_summary, test_cases) ==
    Append(ticket_history,
           [ticket_id |-> ticket_id, ticket_summary |-> ticket_summary,
            test_cases |-> test_cases, test_case_count |-> Len(test_cases)])

\* update_ticket_in_history: the ticket's first entry replaced, or a new entry
\* appended (generated_date is left out)
update_ticket_in_history(ticket_history, ticket_id, ticket_summary, test_cases) ==
    LET found == { i \in 1..Len(ticket_history) : ticket_history[i].ticket_id = ticket_id }
        history_entry == [ticket_id |-> ticket_id, ticket_summary |-> ticket_summary,
                          test_cases |-> test_cases, test_case_count |-> Len(test_cases)]
    IN  IF found # {} THEN [ticket_history EXCEPT ![Min(found)] = history_entry]
        ELSE Append(ticket_history, history_entry)

-----------------------------------------------------------------------------
(* features/codeGenerator/generator.py *)

\* str.replace(old, new) for one-character old and new
Replace(text, old, new) == [i \in 1..Len(text) |-> IF text[i] = old THEN new ELSE text[i]]

\* get_code_cache_file_path: the file name under codeGenerated/
get_code_cache_file_path(test_case_id, ticket_id) ==
    LET safe_test_case_id == Replace(Replace(Replace(test_case_id, "/", "_"), "\\", "_"),
                                     " ", "_")
        safe_ticket_id == Replace(Replace(ticket_id, "/", "_"), "\\", "_")
    IN  IF Truthy(ticket_id)
          THEN safe_ticket_id \o <<"_">> \o safe_test_case_id \o <<"_code.json">>
          ELSE safe_test_case_id \o <<"_code.json">>

\* a cache that is never read
load_cached_code_never(files, test_case_id, ticket_id) == PyNone

\* json.load of the code file; None when there is no file or it is no JSON
load_cached_code(files, test_case_id, ticket_id) ==
    LET file == FileOf(files, get_code_cache_file_path(test_case_id, ticket_id))
    IN  IF file.kind \in {"absent", "garbage"} THEN PyNone ELSE file

\* the file after save_code_to_cache; every exception is caught and printed
\* (generated_date is left out)
save_code_to_cache(file, test_case_id, test_case_title, ticket_id, code_data, formatted_code, fs) ==
    CASE fs = "ok" -> JsonDict([test_case_id |-> test_case_id,
                                test_case_title |-> test_case_title,
                                ticket_id |-> ticket_id,
                                code |-> code_data,
                                formatted |-> formatted_code])
      [] fs = "open_raises" -> file
      [] fs = "dump_raises" -> Garbage

\* the generated code as the model writes it
Section(python, javascript) == [python |-> python, javascript |-> javascript]
P_full    == [locators |-> Section("lp", "lj"), reusable_functions |-> Section("rp", "rj"),
              test_functions |-> Section("tp", "tj"), cursor_prompt |-> "cp"]
P_python  == [locators |-> [python |-> "lp"], reusable_functions |-> EmptyDict,
              test_functions |-> [python |-> "tp"], cursor_prompt |-> ""]
P_nokey   == [locators |-> Section("lp", "lj"), reusable_functions |-> Section("rp", "rj"),
              test_functions |-> Section("tp", "tj")]
P_text    == [locators |-> [nondict |-> TRUE], reusable_functions |-> Section("rp", "rj"),
              test_functions |-> Section("tp", "tj"), cursor_prompt |-> "cp"]

\* crew.kickoff() of the code crew: it raises, or returns a text of which the
\* model keeps raw and what json.loads gives of the text parse_code_json cuts
\* out of it: "error" = JSONDecodeError also after the trailing-comma repair,
\* "nondict" = JSON that is no object, "dict" with the object
CodeText(raw, parse, data) == [k |-> "text", raw |-> raw, parse |-> parse, data |-> data]
CodeOutputs ==
    { KickoffRaises,
      CodeText("c1", "dict", P_full), CodeText("c2", "dict", P_python),
      CodeText("c3", "dict", P_nokey), CodeText("c4", "dict", P_text),
      CodeText("c5", "nondict", EmptyDict), CodeText("c6", "error", EmptyDict) }

required_keys == {"locators", "reusable_functions", "test_functions", "cursor_prompt"}

\* parse_code_json: the parsed object if it has the required keys, else None
parse_code_json(output) ==
    IF output.parse = "dict" /\ required_keys \subseteq DOMAIN output.data
      THEN output.data ELSE PyNone

\* generate_playwright_code: every exception is caught
generate_playwright_code(llm) ==
    IF llm.k = "raise"
      THEN [success |-> FALSE, error |-> Err("generating_code"), raw |-> RawEmpty]
    ELSE IF parse_code_json(llm) = PyNone
      THEN [success |-> FALSE, error |-> Err("parse_failed"), raw |-> RawLLM(llm)]
    ELSE [success |-> TRUE, code |-> parse_code_json(llm), raw |-> RawLLM(llm)]

\* code_dict.get(section, {}).get(language, "") raises AttributeError when the
\* section is no dict
FormatCodeRaises(code_dict) ==
    \E k \in {"locators", "reusable_functions", "test_functions"} :
        "nondict" \in DOMAIN Get(code_dict, k, EmptyDict)

format_code_for_display(code_dict) ==
    LET part(k, language) == Get(Get(code_dict, k, EmptyDict), language, "")
    IN  [locators_python |-> part("locators", "python"),
         locators_javascript |-> part("locators", "javascript"),
         reusable_functions_python |-> part("reusable_functions", "python"),
         reusable_functions_javascript |-> part("reusable_functions", "javascript"),
         test_functions_python |-> part("test_functions", "python"),
         test_functions_javascript |-> part("test_functions", "javascript"),
         cursor_prompt |-> Get(code_dict, "cursor_prompt", "")]

\* what a handle_generate_code call did: its result dict (or that it raised),
\* whether it asked the model, and the save_code_to_cache call it made, if any
CodeOutcome(raised, result, usedLLM, write) ==
    [raised |-> raised, result |-> result, usedLLM |-> usedLLM, write |-> write]
CodeFailure(kind) == [success |-> FALSE, error |-> Err(kind)]
NoCodeWrite == [file |-> <<>>]

\* handle_generate_code: no exception is caught here
handle_generate_code(test_case_id, test_case_title, test_steps, ticket_id, files, llm) ==
    LET cached_code == load_cached_code(files, test_case_id, ticket_id)
        result == generate_playwright_code(llm)
        formatted == format_code_for_display(result.code)
    IN  IF ~Truthy(test_case_id) \/ ~Truthy(test_case_title)
          THEN CodeOutcome(FALSE, CodeFailure("id_and_title_required"), FALSE, NoCodeWrite)
        ELSE IF ~Truthy(test_steps)
          THEN CodeOutcome(FALSE, CodeFailure("steps_required"), FALSE, NoCodeWrite)
        ELSE IF JsonTruthy(cached_code) /\ cached_code.kind = "nondict"
          THEN CodeOutcome(TRUE, CodeFailure("raised"), FALSE, NoCodeWrite)
        ELSE IF JsonTruthy(cached_code)
          THEN CodeOutcome(FALSE,
                           [success |-> TRUE, code |-> Get(cached_code.d, "code", EmptyDict),
                            formatted |-> Get(cached_code.d, "formatted", EmptyDict),
                            cached |-> TRUE],
                           FALSE, NoCodeWrite)
        ELSE IF ~result.success THEN CodeOutcome(FALSE, result, TRUE, NoCodeWrite)
        ELSE IF FormatCodeRaises(result.code)
          THEN CodeOutcome(TRUE, CodeFailure("raised"), TRUE, NoCodeWrite)
        ELSE CodeOutcome(FALSE,
                         [success |-> TRUE, code |-> result.code, raw |-> result.raw,
                          formatted |-> formatted],
                         TRUE,
                         IF Truthy(ticket_id)
                           THEN [file |-> get_code_cache_file_path(test_case_id, ticket_id),
                                 test_case_id |-> test_case_id,
                                 test_case_title |-> test_case_title,
                                 ticket_id |-> ticket_id,
                                 code_data |-> result.code,
                                 formatted_code |-> formatted]
                           ELSE NoCodeWrite)

-----------------------------------------------------------------------------
(* features/recording *)

\* Texts are sequences of pieces: a character, or a literal of the code taken
\* whole ("data-testid=", ". Click on ").  A Python str standing where the
\* code may also meet a dict is Str(s).
Str(s) == [str |-> s]
IsStr(v) == "str" \in DOMAIN v

StartsWith(s, prefix) == Len(s) >= Len(prefix) /\ SubSeq(s, 1, Len(prefix)) = prefix
Without(s, piece) == SelectSeq(s, LAMBDA c : c # piece)
lower(s) == [i \in 1..Len(s) |-> CASE s[i] = "A" -> "a" [] s[i] = "B" -> "b" [] OTHER -> s[i]]

\* a line of Playwright Python code, by what the scans look for in it:
\*   page.goto(<quote><url><quote>)           GotoLine(quote, url)
\*   page.<by>("<arg>")....click()            ClickLine(by, arg)
\*   page.<by>("<arg>")....fill("<value>")    FillLine(by, arg, value)
\*   anything else (import, def, blank)       OtherLine
\* quote "none" is a goto whose argument is no string literal; by is the
\* first of get_by_test_id, get_by_role, locator the line holds, or another
\* call (get_by_text, get_by_label, ...)
GotoLine(quote, url) == [kind |-> "goto", quote |-> quote, url |-> url]
ClickLine(by, arg) == [kind |-> "click", by |-> by, arg |-> arg]
FillLine(by, arg, value) == [kind |-> "fill", by |-> by, arg |-> arg, value |-> value]
OtherLine == [kind |-> "other"]
\* a line holding two statements, the click invocation and then a fill call:
\*   page.<by>("<arg>").click(); page.locator("#o").fill("<value>")
\* kind is the first pattern of the if/elif chain the line holds, also the
\* patterns it holds besides
ClickFillLine(by, arg, value) == [kind |-> "click", also |-> {"fill"}, by |-> by, arg |-> arg, value |-> value]
Holds(line, pattern) == line.kind = pattern \/ ("also" \in DOMAIN line /\ pattern \in line.also)

\* recorded actions (the timestamp is left out)
Navigate(url) == [type |-> "navigate", url |-> url]
Click(selector) == [type |-> "click", selector |-> selector]
Fill(selector, value) == [type |-> "fill", selector |-> selector, value |-> value]
Keypress(key) == [type |-> "keypress", key |-> key]
SelectorInfo(type, value) == [type |-> type, value |-> value]

\* the selector_info the scan of a click line builds (None = no action)
click_selector_info(line) ==
    CASE line.by = "get_by_test_id" /\ Truthy(line.arg) -> SelectorInfo("testid", line.arg)
      [] line.by = "get_by_role" /\ Truthy(line.arg) -> SelectorInfo("role", line.arg)
      [] line.by = "locator" /\ Truthy(line.arg) -> SelectorInfo("css", line.arg)
      [] OTHER -> PyNone

\* the same for a fill line: get_by_role is not looked for
fill_selector_info(line) ==
    CASE line.by = "get_by_test_id" /\ Truthy(line.arg) -> SelectorInfo("testid", line.arg)
      [] line.by = "locator" /\ Truthy(line.arg) -> SelectorInfo("css", line.arg)
      [] OTHER -> PyNone

\* what each branch of the line scan appends when the line holds its pattern
goto_branch(line) ==
    IF line.quote # "none" /\ Truthy(line.url) THEN <<Navigate(line.url)>> ELSE <<>>
click_branch(line) ==
    IF click_selector_info(line) # PyNone THEN <<Click(click_selector_info(line))>> ELSE <<>>
fill_branch(line) ==
    IF fill_selector_info(line) # PyNone
      THEN <<Fill(fill_selector_info(line), line.value)>> ELSE <<>>

\* the line scan with three separate if statements in place of the chain
line_actions_every_pattern(line) ==
    (IF Holds(line, "goto") THEN goto_branch(line) ELSE <<>>) \o
    (IF Holds(line, "click") THEN click_branch(line) ELSE <<>>) \o
    (IF Holds(line, "fill") THEN fill_branch(line) ELSE <<>>)

\* the actions one line adds to recorded_actions (playwright_codegen.py,
\* 254-359): an if/elif/elif chain, the first pattern the line holds decides
line_actions(line) ==
    IF Holds(line, "goto") THEN goto_branch(line)
    ELSE IF Holds(line, "click") THEN click_branch(line)
    ELSE IF Holds(line, "fill") THEN fill_branch(line)
    ELSE <<>>

\* PlaywrightCodegenRecorder._extract_actions_from_code: recorded_actions
\* after the call, from the code text (its lines), the start URL and the
\* recorded_actions before the call
extract_actions_from_code(generated_python_code, start_url, recorded_actions) ==
    LET found == recorded_actions \o
                 Flatten([i \in 1..Len(generated_python_code) |->
                             line_actions(generated_python_code[i])])
    IN  IF ~Truthy(generated_python_code) THEN recorded_actions \o <<Navigate(start_url)>>
        ELSE IF ~Truthy(found) THEN <<Navigate(start_url)>>
        ELSE found

\* the code PlaywrightCodegenRecorder.stop makes up when codegen left no file
NoOutputFile == <<[kind |-> "nofile"]>>
basic_code(start_url) == <<OtherLine, OtherLine, OtherLine, GotoLine("\"", start_url)>>

\* PlaywrightCodegenRecorder.stop() after start(url): the "actions" of its result
codegen_stop(start_url, output_file) ==
    extract_actions_from_code(
        IF output_file = NoOutputFile THEN basic_code(start_url) ELSE output_file,
        start_url, <<>>)

\* the scan of the pasted code in app.py (lines 1300-1335): goto lines and
\* get_by_test_id clicks only, no floor; actions and test_steps
pasted_line_actions(line) ==
    CASE line.kind = "goto" /\ line.quote # "none" /\ Truthy(line.url) ->
           <<Navigate(line.url)>>
      [] line.kind = "click" /\ line.by = "get_by_test_id" /\ Truthy(line.arg) ->
           <<Click(SelectorInfo("testid", line.arg))>>
      [] OTHER -> <<>>
pasted_actions(lines) == Flatten([i \in 1..Len(lines) |-> pasted_line_actions(lines[i])])
pasted_test_steps(lines) ==
    LET actions == pasted_actions(lines)
    IN  [i \in 1..Len(actions) |->
            IF actions[i].type = "navigate" THEN <<"Navigate to ">> \o actions[i].url
            ELSE <<"Click element with test-id: ">> \o actions[i].selector.value]

\* _make_selector_readable(selector) raises AttributeError on a dict that is
\* not empty: a dict has no startswith
readable_raises(selector) == ~IsStr(selector) /\ selector # EmptyDict /\ selector # PyNone

_make_selector_readable(selector) ==
    IF ~IsStr(selector) \/ ~Truthy(selector.str) THEN <<"element">>
    ELSE LET s == selector.str
         IN  CASE StartsWith(s, <<"data-testid=">>) -> Without(s, "data-testid=")
               [] StartsWith(s, <<"#">>) -> <<"element with id '">> \o Tail(s) \o <<"'">>
               [] StartsWith(s, <<"[name='">>) ->
                    <<"field '">> \o Without(Without(s, "[name='"), "']") \o <<"'">>
               [] StartsWith(s, <<"text='">>) ->
                    <<"'">> \o Without(Without(s, "text='"), "'") \o <<"'">>
               [] OTHER -> s

\* the step of one action, numbered step_num (None for a type that gives none)
StepTypes == {"navigate", "click", "fill", "keypress"}
test_step(step_num, action) ==
    LET n == <<ToString(step_num)>>
        selector == Get(action, "selector", Str(<<>>))
    IN  CASE action.type = "navigate" -> n \o <<". Navigate to ">> \o Get(action, "url", <<>>)
          [] action.type = "click" -> n \o <<". Click on ">> \o _make_selector_readable(selector)
          [] action.type = "fill" ->
               n \o <<". Enter '">> \o Get(action, "value", <<>>) \o <<"' in ">>
                 \o _make_selector_readable(selector)
          [] action.type = "keypress" ->
               n \o <<". Press ">> \o Get(action, "key", <<>>) \o <<" key">>

\* convert_actions_to_test_steps(actions): the steps, or that the call raised
convert_actions_to_test_steps(actions) ==
    LET counted == SelectSeq(actions, LAMBDA a : a.type \in StepTypes)
        raised == \E i \in 1..Len(actions) :
                     /\ actions[i].type \in {"click", "fill"}
                     /\ readable_raises(Get(actions[i], "selector", Str(<<>>)))
    IN  [raised |-> raised,
         steps |-> IF raised THEN <<>>
                   ELSE [i \in 1..Len(counted) |-> test_step(i, counted[i])]]

\* the name _extract_locators_from_actions gives a locator
locator_name(sel_value) ==
    LET name == lower(Replace(Replace(sel_value, "-", "_"), " ", "_"))
    IN  IF Len(name) > 30 THEN SubSeq(name, 1, 30) ELSE name

\* the selector types the method writes a declaration for
DeclaredTypes == {"testid", "role", "text", "id", "name"}

\* py_loc and js_loc of a selector of a declared type
py_loc(sel_type, sel_value, sel_name) ==
    <<"    ">> \o locator_name(sel_value) \o
    CASE sel_type = "testid" -> <<" = page.get_by_test_id(\"">> \o sel_value \o <<"\")">>
      [] sel_type = "role" /\ Truthy(sel_name) ->
           <<" = page.get_by_role(\"">> \o sel_value \o <<"\", name=\"">> \o sel_name \o <<"\")">>
      [] sel_type = "role" -> <<" = page.get_by_role(\"">> \o sel_value \o <<"\")">>
      [] sel_type = "text" -> <<" = page.get_by_text(\"">> \o sel_value \o <<"\")">>
      [] sel_type = "id" -> <<" = page.locator(\"#">> \o sel_value \o <<"\")">>
      [] sel_type = "name" -> <<" = page.locator(\"[name=\\\"">> \o sel_value \o <<"\\\"]\")">>
js_loc(sel_type, sel_value, sel_name) ==
    <<"const ">> \o locator_name(sel_value) \o
    CASE sel_type = "testid" -> <<" = page.getByTestId('">> \o sel_value \o <<"');">>
      [] sel_type = "role" /\ Truthy(sel_name) ->
           <<" = page.getByRole('">> \o sel_value \o <<"', { name: '">> \o sel_name \o <<"' });">>
      [] sel_type = "role" -> <<" = page.getByRole('">> \o sel_value \o <<"');">>
      [] sel_type = "text" -> <<" = page.getByText('">> \o sel_value \o <<"');">>
      [] sel_type = "id" -> <<" = page.locator('#">> \o sel_value \o <<"');">>
      [] sel_type = "name" -> <<" = page.locator('[name=\"">> \o sel_value \o <<"\"]');">>

\* the loop of _extract_locators_from_actions from action i on, with the
\* selectors seen so far: the (py_loc, js_loc) pairs it appends.  The key
\* f"{sel_type}_{sel_value}" is the pair: no declared type holds a "_"
RECURSIVE locators_from(_, _, _)
locators_from(actions, i, seen_selectors) ==
    IF i > Len(actions) THEN <<>>
    ELSE LET selector_info == Get(actions[i], "selector", EmptyDict)
             is_dict == ~IsStr(selector_info) /\ selector_info # PyNone
             sel_type == Get(selector_info, "type", "")
             sel_value == Get(selector_info, "value", <<>>)
             sel_name == Get(selector_info, "name", <<>>)
             locator_key == <<sel_type, sel_value>>
         IN  IF ~is_dict \/ ~Truthy(sel_value) \/ locator_key \in seen_selectors
               THEN locators_from(actions, i + 1, seen_selectors)
             ELSE (IF sel_type \in DeclaredTypes
                     THEN << [py |-> py_loc(sel_type, sel_value, sel_name),
                              js |-> js_loc(sel_type, sel_value, sel_name)] >>
                     ELSE <<>>)
                  \o locators_from(actions, i + 1, seen_selectors \cup {locator_key})

\* a BrowserRecorder object, as far as the method reads and writes it
Recorder(actions, locators_python, locators_javascript) ==
    [actions |-> actions, locators_python |-> locators_python,
     locators_javascript |-> locators_javascript]

\* BrowserRecorder._extract_locators_from_actions(self): self after the call
\* (the texts are their lines)
_extract_locators_from_actions(self) ==
    LET locs == locators_from(self.actions, 1, {})
    IN  [self EXCEPT
           !.locators_python =
               <<<<"class Locators:">>>> \o
               (IF locs = <<>> THEN <<<<"    # No locators recorded">>>>
                ELSE [i \in 1..Len(locs) |-> locs[i].py]),
           !.locators_javascript =
               <<<<"// Locators">>>> \o [i \in 1..Len(locs) |-> locs[i].js]]

\* BrowserRecorder.stop() on a recorder that start(url) set up: the object after
recorder_stop(start_url, output_file) ==
    _extract_locators_from_actions(
        Recorder(codegen_stop(start_url, output_file), <<>>, <<>>))

\* save_recorded_flow: the name of the file under codeGenerated/ and the
\* flow written to it (recorded_date is left out)
recording_file_name(recording_id, ticket_id) ==
    LET safe_recording_id == Replace(Replace(Replace(recording_id, "/", "_"), "\\", "_"),
                                     " ", "_")
        safe_ticket_id == Replace(Replace(ticket_id, "/", "_"), "\\", "_")
    IN  IF Truthy(ticket_id)
          THEN safe_ticket_id \o <<"_">> \o safe_recording_id \o <<"_recording.json">>
          ELSE safe_recording_id \o <<"_recording.json">>

codegen_data(recording_id, url, actions, test_steps, test_case_title, ticket_id, generated_code, test_case_id) ==
    [recording_id |-> recording_id,
     test_case_id |-> IF Truthy(test_case_id) THEN test_case_id ELSE recording_id,
     ticket_id |-> ticket_id,
     test_case_title |-> test_case_title,
     url |-> url, actions |-> actions, test_steps |-> test_steps,
     generated_code |-> generated_code]

\* codeGenerated/ after save_recorded_flow; every exception is caught and printed
save_recorded_flow(files, name, data, fs) ==
    CASE fs = "ok" -> [n \in DOMAIN files \cup {name} |-> IF n = name THEN JsonDict(data) ELSE files[n]]
      [] fs = "open_raises" -> files
      [] fs = "dump_raises" -> [n \in DOMAIN files \cup {name} |-> IF n = name THEN Garbage ELSE files[n]]

\* os.remove(path) where the path exists
remove_file(files, name) == [n \in DOMAIN files \ {name} |-> files[n]]

\* get_recorded_flow_for_test_case: the values the call can return; it returns
\* the first match in the order of os.listdir, which is any order
get_recorded_flow_for_test_case(files, test_case_id, ticket_id) ==
    LET matches == { files[n].d : n \in { m \in DOMAIN files :
                        /\ files[m].kind = "dict"
                        /\ "test_case_id" \in DOMAIN files[m].d
                        /\ files[m].d.test_case_id = test_case_id
                        /\ (~Truthy(ticket_id)
                              \/ ( /\ "ticket_id" \in DOMAIN files[m].d
                                   /\ files[m].d.ticket_id = ticket_id )) } }
    IN  IF matches = {} THEN {PyNone} ELSE matches

has_recorded_flow(files, test_case_id, ticket_id) ==
    PyNone \notin get_recorded_flow_for_test_case(files, test_case_id, ticket_id)

-----------------------------------------------------------------------------
(* The state machine *)

\* the collaborators' answers to a call that does not reach them
JiraUnused == [ok |-> FALSE, data |-> EmptyDict, unused |-> TRUE]
LLMUnused  == [k |-> "raise", unused |-> TRUE]

\* no file on disk and no process, where single calls are looked at
NoDisk == [exists |-> FALSE, bytes |-> <<>>]
NoProcs == <<>>

\* what a ticket's cache file may hold before the first call: nothing, text
\* that is no JSON, a JSON list, a JSON object without test cases
InitialFiles ==
    { Absent, Garbage, JsonNonDict(TRUE), JsonDict([status |-> "ready", notes |-> "n0"]) }

\* page_loaded not in st.session_state (app.py, lines 533-554)
FreshSession ==
    [test_cases |-> <<>>, ticket_history |-> <<>>, current_ticket_id |-> NoTicket,
     valid_jira_ticket |-> FALSE, pending_context |-> PyNone, pending_ticket_id |-> NoTicket]

NoCall ==
    [op |-> "none", text |-> <<>>, ticket |-> NoTicket, pre |-> Absent,
     jira |-> JiraUnused, llm |-> LLMUnused, fs |-> "ok",
     out |-> Handled(NotCalled, ShortResult(FALSE, NoError, ErrRet(NoError)))]

\* a call: the function, its feature text, the ticket whose cache file it is
\* about, that file before the call, the answers of Jira, the model and the
\* file system it met, and what it did and returned
Call(op, text, ticket, pre, jira, llm, fs, out) ==
    [op |-> op, text |-> text, ticket |-> ticket, pre |-> pre,
     jira |-> jira, llm |-> llm, fs |-> fs, out |-> out]

\* the cache directory after the call's save_test_cases_to_cache, if it made one
ApplyWrite(files, write, fs) ==
    IF write = NoWrite THEN files
    ELSE [files EXCEPT ![write.ticket] = save_test_cases_to_cache(@, write.data, fs)]

\* hist after a call that returned the formatted test cases tcs
NoteWrite(h, write, fs, tcs) ==
    IF write = NoWrite \/ fs = "open_raises" THEN h
    ELSE [h EXCEPT ![write.ticket] = IF fs = "ok" THEN tcs ELSE <<>>]

\* the answers a call can meet: Jira's and the model's only if it reaches
\* them, the file system's only if it saves
JiraAnswers(reached) == IF reached THEN JiraResponses ELSE {JiraUnused}
LLMAnswers(reached)  == IF reached THEN LLMOutputs ELSE {LLMUnused}
FsAnswers(write)     == IF write # NoWrite THEN FsOutcomes ELSE {"ok"}

TicketA == extract_ticket_id(T_A)
TicketB == extract_ticket_id(T_B)

\* the arguments of the calls: the well-formed ones, and one call for each
\* check a function makes on its arguments
F_full == FormatTestCases(<<TC_full>>)

GenerateArgs ==
    {<<t, EnvOk>> : t \in FeatureTexts} \cup {<<T_A, e>> : e \in Envs} \cup
    {<<T_glued, Env("ann", "lee", EmptyDict, "OpenAI")>>}

\* the contexts generate_test_cases hands out with a needs_more_info result
ContextOf(ticket_id, ticket_data) ==
    generate_from_output(ticket_id, jira_info(ticket_data, ticket_id, ticket_id),
                         O_nmi).ret.context
MoreInfoArgs ==
    {<<ContextOf(TicketA, J_full), <<"i">>, e>> : e \in Envs} \cup
    {<<ContextOf(TicketA, J_bare), <<"j", "k">>, EnvOk>>}

\* (original_feature_text, current_test_cases, feedback_text, env, ticket_id)
RegenerateArgs ==
    { <<T_A, F_full, <<"f">>, EnvOk, NoTicket>>,
      <<T_glued, F_full, <<"f">>, EnvOk, TicketA>>,
      <<T_glued, F_full, <<"f">>, EnvOk, NoTicket>>,
      <<T_A, <<>>, <<"f">>, EnvOk, NoTicket>>,
      <<T_A, F_full, <<" ">>, EnvOk, NoTicket>> } \cup
    { <<T_A, F_full, <<"f">>, e, NoTicket>> : e \in Envs }

Init ==
    /\ disk = NoDisk /\ procs = NoProcs /\ _recorder_instance = PyNone /\ codegen = PyNone
    /\ cache \in { f \in [TicketIds -> InitialFiles] : f[TicketB] = Absent }
    /\ codeCache = EmptyDict
    /\ session = FreshSession
    /\ last = NoCall
    /\ hist = [t \in TicketIds |-> <<>>]

\* the effect of a call on the cache directory, with its record
Effect(op, text, ticket_id, jira, llm, fs, o, tcs) ==
    /\ cache' = ApplyWrite(cache, o.write, fs)
    /\ hist' = NoteWrite(hist, o.write, fs, tcs)
    /\ last' = Call(op, text, ticket_id, FileOf(cache, ticket_id), jira, llm, fs, o)
    /\ UNCHANGED <<codeCache, disk, procs, _recorder_instance, codegen>>

\* the record of a more-info round: the call with the context and the text it
\* was given and the validation request it made
Round(call, context_data, additional_info, asked) ==
    [k \in DOMAIN call \cup {"context_data", "additional_info", "asked"} |->
        CASE k = "context_data" -> context_data
          [] k = "additional_info" -> additional_info
          [] k = "asked" -> asked
          [] OTHER -> call[k]]

\* handle_generate_test_cases(feature_text, first_name, last_name, provider, model)
CallGenerate ==
    \E args \in GenerateArgs :
      \E jira \in JiraAnswers(handle_generate_test_cases(
                      args[1], args[2], cache, JiraUnused, LLMUnused).usedJira) :
        \E llm \in LLMAnswers(handle_generate_test_cases(
                       args[1], args[2], cache, jira, LLMUnused).usedLLM) :
          LET o == handle_generate_test_cases(args[1], args[2], cache, jira, llm)
          IN  \E fs \in FsAnswers(o.write) :
                /\ Effect("generate", args[1], extract_ticket_id(args[1]), jira, llm, fs, o,
                          o.result.test_cases)
                /\ UNCHANGED session

\* generate_test_cases_with_additional_info(context_data, additional_info, ...)
CallGenerateWithInfo ==
    \E args \in MoreInfoArgs :
      \E llm \in LLMAnswers(generate_test_cases_with_additional_info(
                     args[1], args[2], args[3], LLMUnused).usedLLM) :
        LET o == generate_test_cases_with_additional_info(args[1], args[2], args[3], llm)
        IN  \E fs \in FsAnswers(o.write) :
              /\ cache' = ApplyWrite(cache, o.write, fs)
              /\ hist' = NoteWrite(hist, o.write, fs, o.ret.test_cases)
              /\ last' = Round(Call("more_info", <<>>, args[1].ticket_id,
                                    FileOf(cache, args[1].ticket_id), JiraUnused, llm, fs,
                                    Handled(o, o.ret)),
                               args[1], args[2], Get(o, "asked", PyNone))
              /\ UNCHANGED <<codeCache, disk, procs, session, _recorder_instance, codegen>>

\* handle_regenerate_test_cases(original_feature_text, current_test_cases,
\* feedback_text, ..., ticket_id)
CallRegenerate ==
    \E args \in RegenerateArgs :
      \E llm \in LLMAnswers(handle_regenerate_test_cases(
                     args[1], args[2], args[3], args[4], args[5], LLMUnused).usedLLM) :
        LET o == handle_regenerate_test_cases(
                     args[1], args[2], args[3], args[4], args[5], llm)
        IN  \E fs \in FsAnswers(o.write) :
              /\ Effect("regenerate", args[1],
                        IF Truthy(args[5]) THEN args[5] ELSE extract_ticket_id(args[1]),
                        JiraUnused, llm, fs, o, o.result.test_cases)
              /\ UNCHANGED session

Next ==
    \/ CallGenerate
    \/ CallGenerateWithInfo
    \/ CallRegenerate

Spec == Init /\ [][Next]_vars

-----------------------------------------------------------------------------
(* app.py: one browser session driving the generation functions (SpecApp) *)

\* the signed-in user, and what Jira and the model answer in this session
AppEnv == EnvOk
AppTexts == {T_A, T_B}
AppJiraAnswers(reached) == IF reached THEN {JiraOk(J_full)} ELSE {JiraUnused}
AppLLMOutputs == {O_ready1, O_nosteps, O_nmi, O_invalid, KickoffRaises}
AppLLMAnswers(reached) == IF reached THEN AppLLMOutputs ELSE {LLMUnused}

\* if st.session_state.get("pending_context") and not
\* st.session_state.get("valid_jira_ticket", False): the form that offers a
\* more-info round (line 742).  The form nested in the generate handler (lines
\* 619-696) is drawn only in the run of the Generate click; the click on its
\* button starts a run in which it is not drawn, so it never acts.
MoreInfoOffered(st) == st.pending_context # PyNone /\ ~st.valid_jira_ticket

InitApp ==
    /\ disk = NoDisk /\ procs = NoProcs /\ _recorder_instance = PyNone /\ codegen = PyNone
    /\ cache = [t \in TicketIds |-> Absent]
    /\ codeCache = EmptyDict
    /\ session = FreshSession
    /\ last = NoCall
    /\ hist = [t \in TicketIds |-> <<>>]

\* the session after the result of handle_generate_test_cases (lines 610-735)
after_generate(st, feature_text, result) ==
    LET context_data == Get(result, "context_data", PyNone)
        ticket_id == extract_ticket_id(feature_text)
    IN  IF ~result.success THEN
            IF Get(result, "needs_more_info", FALSE) /\ context_data # PyNone
              THEN [st EXCEPT !.pending_context = context_data,
                              !.pending_ticket_id = Get(context_data, "ticket_id", NoTicket)]
              ELSE st
        ELSE IF Truthy(ticket_id)
          THEN [st EXCEPT !.test_cases = result.test_cases,
                          !.valid_jira_ticket = TRUE,
                          !.current_ticket_id = ticket_id,
                          !.ticket_history = update_ticket_in_history(
                              @, ticket_id, feature_text, result.test_cases)]
          ELSE [st EXCEPT !.test_cases = result.test_cases, !.valid_jira_ticket = TRUE]

\* if generate: (lines 595-735)
GenerateButton ==
    \E feature_text \in AppTexts :
      \E jira \in AppJiraAnswers(handle_generate_test_cases(
                      feature_text, AppEnv, cache, JiraUnused, LLMUnused).usedJira) :
        \E llm \in AppLLMAnswers(handle_generate_test_cases(
                       feature_text, AppEnv, cache, jira, LLMUnused).usedLLM) :
          LET o == handle_generate_test_cases(feature_text, AppEnv, cache, jira, llm)
          IN  /\ Effect("generate", feature_text, extract_ticket_id(feature_text),
                        jira, llm, "ok", o, o.result.test_cases)
              /\ session' = after_generate(session, feature_text, o.result)

\* the session after generate_test_cases_with_additional_info returned ret
\* (lines 787-825): the history is updated for pending_ticket_id, read after
\* it was deleted
after_more_info(st, context_data, ret) ==
    IF ret.error # NoError THEN
        IF ret.error.kind = "needs_more_info"
          THEN [st EXCEPT !.pending_context =
                              IF ret.context # PyNone THEN ret.context ELSE context_data]
          ELSE st
    ELSE [st EXCEPT !.pending_context = PyNone,
                    !.pending_ticket_id = NoTicket,
                    !.test_cases = IF Truthy(ret.test_cases) THEN ret.test_cases
                                   ELSE fallback_test_cases(ret.df),
                    !.valid_jira_ticket = TRUE]

\* the "Generate with Additional Info" button of the pending-context form
\* (lines 742-828)
MoreInfoButton ==
    /\ MoreInfoOffered(session)
    /\ \E additional_info \in {<<"i">>, <<" ">>} :
         IF IsBlank(additional_info)
           THEN UNCHANGED vars
           ELSE \E llm \in AppLLMAnswers(generate_test_cases_with_additional_info(
                               session.pending_context, additional_info, AppEnv,
                               LLMUnused).usedLLM) :
                  LET o == generate_test_cases_with_additional_info(
                               session.pending_context, additional_info, AppEnv, llm)
                  IN  /\ Effect("more_info", <<>>,
                                Get(session.pending_context, "ticket_id", NoTicket),
                                JiraUnused, llm, "ok", Handled(o, o.ret), o.ret.test_cases)
                      /\ session' = after_more_info(session, session.pending_context, o.ret)

\* if regenerate_button: (lines 963-1016), inside if valid_jira_ticket: (839)
RegenerateButton ==
    /\ session.valid_jira_ticket
    /\ \E feature_text \in AppTexts, feedback_text \in {<<"f">>} :
         LET ticket_id == IF Truthy(session.current_ticket_id)
                            THEN session.current_ticket_id
                            ELSE extract_ticket_id(feature_text)
         IN  \E llm \in AppLLMAnswers(handle_regenerate_test_cases(
                            feature_text, session.test_cases, feedback_text, AppEnv,
                            ticket_id, LLMUnused).usedLLM) :
               LET o == handle_regenerate_test_cases(
                            feature_text, session.test_cases, feedback_text, AppEnv,
                            ticket_id, llm)
               IN  /\ Effect("regenerate", feature_text, ticket_id, JiraUnused, llm,
                             "ok", o, o.result.test_cases)
                   /\ session' =
                        IF ~o.result.success THEN session
                        ELSE IF Truthy(session.current_ticket_id)
                          THEN [session EXCEPT
                                  !.test_cases = o.result.test_cases,
                                  !.ticket_history = update_ticket_in_history(
                                      @, session.current_ticket_id, feature_text,
                                      o.result.test_cases)]
                          ELSE [session EXCEPT !.test_cases = o.result.test_cases]

\* "Load Selected Ticket" (lines 1596-1606)
LoadSelectedTicket ==
    \E i \in 1..Len(session.ticket_history) :
      LET selected_ticket_id == session.ticket_history[i].ticket_id
          ticket_entry == get_ticket_history_entry(session.ticket_history, selected_ticket_id)
      IN  /\ ticket_entry # PyNone
          /\ session' = [session EXCEPT !.test_cases = ticket_entry.test_cases,
                                        !.current_ticket_id = selected_ticket_id,
                                        !.valid_jira_ticket = TRUE]
          /\ UNCHANGED <<cache, codeCache, last, hist, disk, procs, _recorder_instance, codegen>>

\* "Clear History" (lines 1611-1617), drawn while the history is not empty
ClearHistory ==
    /\ session.ticket_history # <<>>
    /\ session' = [session EXCEPT !.ticket_history = <<>>,
                                  !.test_cases = <<>>,
                                  !.current_ticket_id = NoTicket,
                                  !.valid_jira_ticket = FALSE]
    /\ UNCHANGED <<cache, codeCache, last, hist, disk, procs, _recorder_instance, codegen>>

\* a page refresh: "page_loaded" not in st.session_state (lines 533-554)
PageRefresh ==
    /\ session' = FreshSession
    /\ last' = NoCall
    /\ UNCHANGED <<cache, codeCache, hist, disk, procs, _recorder_instance, codegen>>

NextApp ==
    \/ GenerateButton
    \/ MoreInfoButton
    \/ RegenerateButton
    \/ LoadSelectedTicket
    \/ ClearHistory
    \/ PageRefresh

SpecApp == InitApp /\ [][NextApp]_vars

\* the outcome of the last round, as the state machine names it
RoundOutcome(c) ==
    IF c.op \notin {"generate", "more_info"} THEN "none"
    ELSE IF c.out.result.error.kind = "needs_more_info" THEN "NeedsMoreInfo"
    ELSE IF c.out.result.error.kind = "invalid" THEN "Invalid"
    ELSE IF c.out.result.error = NoError /\ c.out.result.test_cases # <<>> THEN "Ready"
    ELSE "none"

\* C7 (as claimed): once a round for a ticket has ended in Ready or Invalid,
\* the session holds no pending more-info context for that ticket and offers
\* no more-info round for it.
C7_TerminalOutcomeClearsPending ==
    RoundOutcome(last) \in {"Ready", "Invalid"}
    => ~( /\ session.pending_context # PyNone
          /\ session.pending_ticket_id = last.ticket )

-----------------------------------------------------------------------------
(* Code generation against the code cache (SpecCode) *)

TestCaseIds    == { <<"T", "1">>, <<"T", " ", "1">>, <<>> }
TestCaseTitles == { <<"t">>, <<>> }
TestStepLists  == { <<"s1">>, <<>> }
CodeTicketIds  == { NoTicket, TicketA }

CodePairs == TestCaseIds \X CodeTicketIds

CodeFiles ==
    { get_code_cache_file_path(i, t) : i \in TestCaseIds \ {<<>>}, t \in CodeTicketIds }

\* what a code file may hold before the first call: nothing, text that is no
\* JSON, a JSON list, a JSON object without code
InitialCodeFiles ==
    { Absent, Garbage, JsonNonDict(TRUE), JsonDict([test_case_id |-> <<"T", "1">>]) }

InitCode ==
    /\ disk = NoDisk /\ procs = NoProcs /\ _recorder_instance = PyNone /\ codegen = PyNone
    /\ cache = [t \in TicketIds |-> Absent]
    /\ codeCache \in { f \in [CodeFiles -> InitialCodeFiles] :
                         \A n \in CodeFiles :
                             n # get_code_cache_file_path(<<"T", "1">>, TicketA)
                                 => f[n] = Absent }
    /\ session = FreshSession
    /\ last = NoCall
    /\ hist = [p \in CodePairs |-> PyNone]

CodeLLMAnswers(reached) == IF reached THEN CodeOutputs ELSE {LLMUnused}
CodeFsAnswers(write)    == IF write # NoCodeWrite THEN FsOutcomes ELSE {"ok"}

\* the code cache after the call's save_code_to_cache, if it made one
ApplyCodeWrite(files, write, fs) ==
    IF write = NoCodeWrite THEN files
    ELSE [files EXCEPT ![write.file] =
             save_code_to_cache(@, write.test_case_id, write.test_case_title,
                                write.ticket_id, write.code_data, write.formatted_code, fs)]

\* hist after a call for the pair p: the payload of the pair's latest success,
\* and whether the code cache holds it (it was served from the cache, or the
\* call saved it and the save succeeded; json.dump and json.load give back
\* the dict that json.loads built from the model's text)
NoteCode(h, p, o, fs) ==
    IF o.raised \/ ~o.result.success THEN h
    ELSE [h EXCEPT ![p] =
             [code |-> o.result.code, formatted |-> o.result.formatted,
              stored |-> \/ "cached" \in DOMAIN o.result
                        \/ (o.write # NoCodeWrite /\ fs = "ok")]]

\* handle_generate_code(test_case_id, test_case_title, test_steps, ..., ticket_id)
CallGenerateCode ==
    \E test_case_id \in TestCaseIds, test_case_title \in TestCaseTitles,
       test_steps \in TestStepLists, ticket_id \in CodeTicketIds :
      \E llm \in CodeLLMAnswers(handle_generate_code(
                     test_case_id, test_case_title, test_steps, ticket_id,
                     codeCache, LLMUnused).usedLLM) :
        LET o == handle_generate_code(test_case_id, test_case_title, test_steps,
                                      ticket_id, codeCache, llm)
        IN  \E fs \in CodeFsAnswers(o.write) :
              /\ codeCache' = ApplyCodeWrite(codeCache, o.write, fs)
              /\ last' = [op |-> "generate_code", text |-> test_case_id, ticket |-> ticket_id,
                          pre |-> FileOf(codeCache,
                                         get_code_cache_file_path(test_case_id, ticket_id)),
                          jira |-> JiraUnused, llm |-> llm, fs |-> fs, out |-> o]
              /\ hist' = NoteCode(hist, <<test_case_id, ticket_id>>, o, fs)
              /\ UNCHANGED <<cache, session, disk, procs, _recorder_instance, codegen>>

NextCode == CallGenerateCode

SpecCode == InitCode /\ [][NextCode]_vars

\* C9 (as claimed): a handler never raises; whatever the cache files and the
\* model hold, it returns a result dict with a success flag and, on failure,
\* an error message.
C9_HandlerReturnsResult ==
    last.op # "none"
    => /\ ~last.out.raised
       /\ "success" \in DOMAIN last.out.result
       /\ ~last.out.result.success => last.out.result.error # NoError

\* the pair of a code generation call, and the call got past the two
\* argument checks of handle_generate_code
PairOf(c) == <<c.text, c.ticket>>
CodeAdmitted(c) ==
    /\ c.op = "generate_code"
    /\ ~c.out.raised => ( \/ c.out.result.success
                          \/ c.out.result.error.kind \notin
                                 {"id_and_title_required", "steps_required"} )

\* the call returned the payload e from the cache, without the model
ServedFromCache(c, e) ==
    /\ ~c.out.raised /\ c.out.result.success
    /\ "cached" \in DOMAIN c.out.result /\ c.out.result.cached
    /\ c.out.result.code = e.code /\ c.out.result.formatted = e.formatted
    /\ ~c.out.usedLLM

-----------------------------------------------------------------------------
(* Two processes in generate_test_cases for one ticket (SpecRace) *)

Procs == {1, 2}

\* json.dump(test_cases_data, f, indent=2): the text of a payload, in units of
\* equal size; a payload with more test cases is a longer text
Units(data) == 1 + Len(Get(data, "test_cases", <<>>))
Serialized(data) == [i \in 1..Units(data) |-> [of |-> data, at |-> i]]

\* the units one write() call of the buffered file object hands to the
\* operating system (io.DEFAULT_BUFFER_SIZE bytes); a longer text takes
\* several calls
WriteUnits == 2

\* the byte a hole holds (a write past the end of a file another process
\* has truncated)
Nul == [of |-> EmptyDict, at |-> 0]

\* the payloads the two processes may come to write
RacePayloads ==
    { generate_from_output(TicketA, jira_info(J_full, TicketA, T_A), llm).write.data :
          llm \in {O_ready1, O_ready2} }

\* what load_cached_test_cases makes of the bytes: no file, the object whose
\* text they are, or text json.load rejects
FileView(d) ==
    IF ~d.exists THEN Absent
    ELSE IF \E data \in RacePayloads : d.bytes = Serialized(data)
      THEN JsonDict(CHOOSE data \in RacePayloads : d.bytes = Serialized(data))
    ELSE Garbage
FilesOf(d) == [t \in TicketIds |-> IF t = TicketA THEN FileView(d) ELSE Absent]

\* open(cache_file, 'w'): the file exists and is empty; the process's own
\* file position is 0
Truncated == [exists |-> TRUE, bytes |-> <<>>]

\* write() of the units chunk at the position offset of a file description
\* that was not opened for appending: bytes before and after stay
WriteAt(bytes, offset, chunk) ==
    LET n == Max({Len(bytes), offset + Len(chunk)})
    IN  [i \in 1..n |->
            IF i > offset /\ i <= offset + Len(chunk) THEN chunk[i - offset]
            ELSE IF i <= Len(bytes) THEN bytes[i]
            ELSE Nul]

\* a process: where it is in generate_test_cases, the payload it saves, its
\* file position, and whether it asked the model and closed its file
Proc(pc, data, offset, usedLLM, saved) ==
    [pc |-> pc, data |-> data, offset |-> offset, usedLLM |-> usedLLM, saved |-> saved]

RaceJiraAnswers == {JiraFail, JiraOk(J_full)}
RaceLLMOutputs == {O_ready1, O_ready2, O_nmi}

InitRace ==
    /\ cache = [t \in TicketIds |-> Absent]
    /\ codeCache = EmptyDict
    /\ session = FreshSession
    /\ last = NoCall
    /\ hist = [t \in TicketIds |-> <<>>]
    /\ disk = NoDisk
    /\ procs = [p \in Procs |-> Proc("check", EmptyDict, 0, FALSE, FALSE)]
    /\ _recorder_instance = PyNone /\ codegen = PyNone

\* lines 225-261: the cache check; a hit returns, a miss goes on to Jira and
\* the model
RaceCheck(p) ==
    /\ procs[p].pc = "check"
    /\ LET o == generate_test_cases(T_A, EnvOk, FilesOf(disk), JiraUnused, LLMUnused)
       IN  procs' = [procs EXCEPT ![p].pc = IF o.usedJira THEN "kickoff" ELSE "done"]
    /\ UNCHANGED <<cache, codeCache, session, last, hist, disk, _recorder_instance, codegen>>

\* lines 263-461 up to the call of save_test_cases_to_cache: Jira, the model,
\* the status; with ready test cases the process goes on to save them
RaceKickoff(p) ==
    /\ procs[p].pc = "kickoff"
    /\ \E jira \in RaceJiraAnswers :
         \E llm \in (IF jira.ok THEN RaceLLMOutputs ELSE {LLMUnused}) :
           LET o == generate_test_cases(T_A, EnvOk, [t \in TicketIds |-> Absent], jira, llm)
           IN  procs' = [procs EXCEPT ![p] =
                             IF o.write = NoWrite
                               THEN Proc("done", EmptyDict, 0, o.usedLLM, FALSE)
                               ELSE Proc("open", o.write.data, 0, o.usedLLM, FALSE)]
    /\ UNCHANGED <<cache, codeCache, session, last, hist, disk, _recorder_instance, codegen>>

\* line 72: open(cache_file, 'w') truncates the file, or raises (caught)
RaceOpen(p) ==
    /\ procs[p].pc = "open"
    /\ \E fs \in {"ok", "open_raises"} :
         IF fs = "ok"
           THEN /\ disk' = Truncated
                /\ procs' = [procs EXCEPT ![p].pc = "write"]
           ELSE /\ procs' = [procs EXCEPT ![p].pc = "done"]
                /\ UNCHANGED disk
    /\ UNCHANGED <<cache, codeCache, session, last, hist, _recorder_instance, codegen>>

\* line 73: json.dump; one write() call of the file object
RaceWrite(p) ==
    /\ procs[p].pc = "write"
    /\ procs[p].offset < Units(procs[p].data)
    /\ LET text == Serialized(procs[p].data)
           n == Min({WriteUnits, Len(text) - procs[p].offset})
           chunk == SubSeq(text, procs[p].offset + 1, procs[p].offset + n)
       IN  /\ disk' = [exists |-> TRUE, bytes |-> WriteAt(disk.bytes, procs[p].offset, chunk)]
           /\ procs' = [procs EXCEPT ![p].offset = @ + n]
    /\ last' = [NoCall EXCEPT !.op = "write", !.ticket = <<p>>]
    /\ UNCHANGED <<cache, codeCache, session, hist, _recorder_instance, codegen>>

\* the end of the with block: the file is closed, the function returns
RaceClose(p) ==
    /\ procs[p].pc = "write"
    /\ procs[p].offset = Units(procs[p].data)
    /\ procs' = [procs EXCEPT ![p].pc = "done", ![p].saved = TRUE]
    /\ UNCHANGED <<cache, codeCache, session, last, hist, disk, _recorder_instance, codegen>>

NextRace ==
    \E p \in Procs :
        \/ RaceCheck(p)
        \/ RaceKickoff(p)
        \/ RaceOpen(p)
        \/ RaceWrite(p)
        \/ RaceClose(p)

SpecRace == InitRace /\ [][NextRace]_vars

\* the process whose write() call was the last one
LastWriter == last.ticket[1]

\* C13 (as claimed): when both processes passed the cache check, asked the
\* model and saved their payload, then after both have finished the ticket's
\* cache file holds the complete payload of the process that wrote last,
\* never no entry and never a mixture of the two payloads.
C13_LastWriterWins ==
    ( \A p \in Procs : procs[p].pc = "done" /\ procs[p].usedLLM /\ procs[p].saved )
    => FileView(disk) = JsonDict(procs[LastWriter].data)

-----------------------------------------------------------------------------
(* Recording: extraction, steps, locators and the stored flows (SpecRec) *)

U_start == <<"https://x.test">>
U_login == <<"https://x.test/login">>
V_testid == <<"submit", "-", "btn">>
V_css == <<"#", "email">>
V_role == <<"button">>
V_fill == <<"a@b.com">>

L_goto == GotoLine("\"", U_login)
L_goto_var == GotoLine("none", <<>>)
L_click_testid == ClickLine("get_by_test_id", V_testid)
L_click_role == ClickLine("get_by_role", V_role)
L_click_css == ClickLine("locator", V_css)
L_click_text == ClickLine("get_by_text", <<"hi">>)
L_fill_css == FillLine("locator", V_css, V_fill)
L_fill_role == FillLine("get_by_role", V_role, V_fill)
L_click_fill == ClickFillLine("locator", V_css, V_fill)

\* code texts: the recorded example, texts without any line the scans know,
\* repeated selectors, single lines
X_example == <<OtherLine, L_goto, L_click_testid, L_fill_css>>
X_none == <<OtherLine, L_goto_var, L_click_text, L_fill_role>>
X_other == <<OtherLine>>
X_dups == <<L_click_testid, L_click_role, L_click_testid, L_click_css, L_fill_css>>
X_nav == <<L_goto>>
X_fill == <<L_fill_css>>
X_two == <<L_goto, OtherLine, L_click_fill, L_fill_css>>
RecTexts == {X_example, X_none, X_other, X_dups, X_nav, X_fill, X_two}

\* action lists with selectors written as strings
A_strings ==
    << Navigate(U_login), Click(Str(<<"data-testid=">> \o V_testid)),
       Fill(Str(V_css), V_fill), Keypress(<<"Enter">>), Click(Str(<<>>)) >>
ConvertInputs == {codegen_stop(U_start, x) : x \in RecTexts \cup {NoOutputFile}} \cup {A_strings}

RecTestCaseIds == {<<"TC-01">>, <<"TC-02">>}
RecTicketIds == {NoTicket, TicketA}

\* (pasted_code, test_case_id, ticket_id, recording_id) of the clicks on
\* "Save & Process Code"; the recording id is "REC-" and the second of the click
SaveArgs ==
    { <<X_example, <<"TC-01">>, TicketA, <<"REC-", "1">> >>,
      <<X_nav, <<"TC-01">>, TicketA, <<"REC-", "2">> >>,
      <<X_dups, <<"TC-02">>, NoTicket, <<"REC-", "1">> >>,
      <<X_none, <<"TC-01">>, TicketA, <<"REC-", "2">> >>,
      <<X_other, <<"TC-02">>, NoTicket, <<"REC-", "2">> >>,
      <<X_fill, <<"TC-01">>, NoTicket, <<"REC-", "1">> >> }

\* the last call on the recording side
NoRec ==
    [op |-> "none", code |-> <<>>, url |-> <<>>, actions |-> <<>>, self |-> PyNone,
     converted |-> [raised |-> FALSE, steps |-> <<>>],
     test_case_id |-> <<>>, ticket_id |-> <<>>, existing |-> PyNone]

InitRec ==
    /\ disk = NoDisk /\ procs = NoProcs /\ _recorder_instance = PyNone /\ codegen = PyNone
    /\ cache = [t \in TicketIds |-> Absent]
    /\ codeCache = EmptyDict
    /\ session = FreshSession
    /\ last = NoRec
    /\ hist = [t \in TicketIds |-> <<>>]

\* BrowserRecorder.stop() of a session started on U_start (recorder.py, 638-660)
StopRecording ==
    /\ \E output_file \in RecTexts \cup {NoOutputFile} :
         LET self == recorder_stop(U_start, output_file)
         IN  last' = [NoRec EXCEPT !.op = "stop", !.code = output_file, !.url = U_start,
                                   !.actions = self.actions, !.self = self]
    /\ UNCHANGED <<cache, codeCache, session, hist, disk, procs, _recorder_instance, codegen>>

\* _extract_locators_from_actions run once more on the same recorder
ExtractLocators ==
    /\ last.self # PyNone
    /\ last' = [last EXCEPT !.op = "locators",
                            !.self = _extract_locators_from_actions(last.self)]
    /\ UNCHANGED <<cache, codeCache, session, hist, disk, procs, _recorder_instance, codegen>>

\* convert_actions_to_test_steps(actions)
ConvertActions ==
    /\ \E actions \in ConvertInputs :
         last' = [NoRec EXCEPT !.op = "convert", !.actions = actions,
                               !.converted = convert_actions_to_test_steps(actions)]
    /\ UNCHANGED <<cache, codeCache, session, hist, disk, procs, _recorder_instance, codegen>>

\* "Save & Process Code" (app.py, lines 1291-1359): drawn for a selected test
\* case when the pasted code is not blank
SaveAndProcessCode ==
    \E args \in SaveArgs :
      LET pasted_code == args[1]
          test_case_id == args[2]
          ticket_id == args[3]
          recording_id == args[4]
          actions == pasted_actions(pasted_code)
          data == codegen_data(recording_id, U_start, actions,
                               pasted_test_steps(pasted_code),
                               <<"Recorded Flow - ">> \o U_start, ticket_id,
                               [python |-> pasted_code, javascript |-> <<>>], test_case_id)
      IN  /\ last' = [NoRec EXCEPT !.op = "save", !.code = pasted_code, !.url = U_start,
                                   !.actions = actions, !.test_case_id = test_case_id,
                                   !.ticket_id = ticket_id]
          /\ IF Truthy(actions)
               THEN \E fs \in FsOutcomes :
                      codeCache' = save_recorded_flow(
                          codeCache, recording_file_name(recording_id, ticket_id), data, fs)
               ELSE UNCHANGED codeCache
          /\ UNCHANGED <<cache, session, hist, disk, procs, _recorder_instance, codegen>>

\* "Delete Recording" (app.py, lines 1205-1224): drawn when a recording was
\* found for the selected test case
DeleteRecording ==
    \E test_case_id \in RecTestCaseIds, ticket_id \in RecTicketIds :
      \E existing_recording \in
             get_recorded_flow_for_test_case(codeCache, test_case_id, ticket_id) :
        LET recording_file == Get(existing_recording, "_file_path", <<>>)
        IN  /\ existing_recording # PyNone
            /\ codeCache' = IF Truthy(recording_file) /\ recording_file \in DOMAIN codeCache
                              THEN remove_file(codeCache, recording_file)
                              ELSE codeCache
            /\ last' = [NoRec EXCEPT !.op = "delete", !.test_case_id = test_case_id,
                                     !.ticket_id = ticket_id,
                                     !.existing = existing_recording]
            /\ UNCHANGED <<cache, session, hist, disk, procs, _recorder_instance, codegen>>

NextRec ==
    \/ StopRecording
    \/ ExtractLocators
    \/ ConvertActions
    \/ SaveAndProcessCode
    \/ DeleteRecording

SpecRec == InitRec /\ [][NextRec]_vars

\* the selector of an action in words, as the claim reads it
ReadableSelectorOf(info) ==
    CASE info.type = "testid" -> info.value
      [] info.type = "css" /\ StartsWith(info.value, <<"#">>) ->
           <<"element with id '">> \o Tail(info.value) \o <<"'">>
      [] OTHER -> info.value

\* the step the claim gives action a the number n
ClaimedStep(n, a) ==
    CASE a.type = "navigate" -> <<ToString(n), ". Navigate to ">> \o a.url
      [] a.type = "click" -> <<ToString(n), ". Click on ">> \o ReadableSelectorOf(a.selector)
      [] a.type = "fill" ->
           <<ToString(n), ". Enter '">> \o a.value \o <<"' in ">>
             \o ReadableSelectorOf(a.selector)

\* the action lists the extractor produces
ExtractorOutputs == {codegen_stop(U_start, x) : x \in RecTexts \cup {NoOutputFile}}

\* C14 (as claimed): for an action list the action extractor produced,
\* convert_actions_to_test_steps returns one numbered step per action, in
\* order, "N. Navigate to {url}", "N. Click on {selector}", "N. Enter
\* '{value}' in {selector}" with the selector in words.
C14_OneStepPerAction ==
    ( last.op = "convert" /\ last.actions \in ExtractorOutputs )
    => /\ ~last.converted.raised
       /\ Len(last.converted.steps) = Len(last.actions)
       /\ \A i \in 1..Len(last.actions) :
             i <= Len(last.converted.steps)
             => last.converted.steps[i] = ClaimedStep(i, last.actions[i])

-----------------------------------------------------------------------------
(* Properties of the generation functions and the test-case cache (Spec) *)

\* the errors of a call turned away by a check on its arguments or on the
\* user's credentials, before the function did anything
ArgumentErrors ==
    { "paste_first", "user_not_identified", "feedback_required", "no_existing_test_cases",
      "names_required", "no_credentials", "no_api_key", "no_jira_credentials",
      "invalid_provider", "no_provider_key" }
Admitted(c) == c.op # "none" /\ c.out.result.error.kind \notin ArgumentErrors

\* the model output of a call, as the claims speak of it
IsObject(llm)    == llm.k = "text" /\ llm.parse = "dict"
StatusOf(llm)    == IF "status" \in DOMAIN llm.data THEN llm.data.status ELSE ""
TestCasesOf(llm) == IF "test_cases" \in DOMAIN llm.data THEN llm.data.test_cases ELSE <<>>
QuestionsOf(llm) == IF "questions" \in DOMAIN llm.data THEN llm.data.questions ELSE <<>>
Has(d, k, v)     == k \in DOMAIN d /\ d[k] = v

\* the call reached the model and the model answered with a JSON object
Answered(c) == c.out.usedLLM /\ IsObject(c.llm)

\* the call left its ticket's cache file as it found it
CacheUntouched(c) ==
    c.out.write = NoWrite /\ (c.ticket \in DOMAIN cache => cache[c.ticket] = c.pre)

ReadyWithTestCases(c) ==
    IsObject(c.llm) /\ StatusOf(c.llm) = "ready" /\ TestCasesOf(c.llm) # <<>>
FallbackArray(c) ==
    c.op = "generate" /\ c.llm.k = "text" /\ c.llm.parse = "error" /\ c.llm.legacy = "items"

\* C2 (amended): in every flow a call writes the ticket's cache entry, or
\* changes the cache at all, only when the model output was a JSON object with
\* status ready and a non-empty test_cases list, or, in the initial flow only,
\* when the output was no valid JSON but held a JSON array of step objects.
C2_WriteOnlyOnReadyOrFallback ==
    [][ (last'.out.write # NoWrite \/ cache' # cache)
        => (ReadyWithTestCases(last') \/ FallbackArray(last')) ]_vars

\* C2: a more-info round whose ready output was written to the cache
C2_witness ==
    /\ last.op = "more_info" /\ ReadyWithTestCases(last)
    /\ last.out.write # NoWrite /\ last.fs = "ok"
    /\ cache[last.ticket] = JsonDict(last.out.write.data)
    /\ cache[last.ticket] # last.pre

\* C2 (as claimed): the cache is written only on a JSON object with status
\* ready and a non-empty test_cases list.
C2_WriteOnlyOnReady ==
    [][ (last'.out.write # NoWrite \/ cache' # cache) => ReadyWithTestCases(last') ]_vars

\* C3: an initial generation whose model output has status needs_more_info
\* returns no test cases and the needs_more_info flag, with a context that
\* carries the model's questions, the ticket id and Jira's key, project,
\* summary and description (each with the default the code gives it when
\* Jira left it out); no cache entry is written.
C3_NeedsMoreInfoResult ==
    ( last.op = "generate" /\ Answered(last) /\ StatusOf(last.llm) = "needs_more_info" )
    => LET r == last.out.result
           ctx == r.context_data
           t == last.jira.data
           f == IF "fields" \in DOMAIN t THEN t.fields ELSE EmptyDict
           summary == IF "summary" \in DOMAIN f THEN f.summary ELSE <<>>
           desc == IF "description" \in DOMAIN f THEN f.description ELSE <<>>
       IN  /\ ~r.success /\ r.test_cases = <<>> /\ r.df = <<>>
           /\ r.needs_more_info
           /\ r.error.kind = "needs_more_info"
           /\ Has(ctx, "questions", QuestionsOf(last.llm))
           /\ Has(ctx, "ticket_id", last.ticket)
           /\ Has(ctx, "jira_key", IF "key" \in DOMAIN t THEN t.key ELSE last.ticket)
           /\ Has(ctx, "jira_project",
                  IF "project" \in DOMAIN f THEN f.project.name ELSE <<"Unknown Project">>)
           /\ Has(ctx, "jira_summary", summary)
           /\ Has(ctx, "jira_description",
                  IF desc # <<>> THEN desc ELSE IF summary # <<>> THEN summary ELSE last.text)
           /\ CacheUntouched(last)

\* C3: an initial generation for a ticket Jira describes in full, answered
\* with needs_more_info and a question
C3_witness ==
    /\ last.op = "generate" /\ last.llm = O_nmi /\ last.jira = JiraOk(J_full)
    /\ last.out.result.needs_more_info
    /\ last.out.result.context_data.questions = <<"q1">>

C5_RegenerationNarrowsStatus ==
    /\ last.op = "regenerate"
       => ~last.out.result.needs_more_info /\ last.out.result.context_data = PyNone
    /\ ( last.op = "regenerate" /\ Answered(last) /\ StatusOf(last.llm) # "ready" )
       => /\ ~last.out.result.success
          /\ last.out.result.error.kind = "unexpected_status"
          /\ last.out.result.error.status = StatusOf(last.llm)
          /\ last.out.result.test_cases = <<>> /\ last.out.result.df = <<>>
          /\ CacheUntouched(last)

\* C5: a regeneration answered with needs_more_info
C5_witness ==
    /\ last.op = "regenerate" /\ last.llm = O_nmi /\ last.out.usedLLM
    /\ last.out.result.error.kind = "unexpected_status"

\* a stored entry generate_test_cases answers from
WellFormedEntry(file) ==
    /\ file.kind = "dict"
    /\ "test_cases" \in DOMAIN file.d
    /\ file.d.test_cases # <<>>

\* C6 (as claimed): whatever a ticket's cache file holds that is no
\* well-formed entry, generate_test_cases for the ticket raises nothing,
\* reports no error of its own making and goes on to Jira.
C6_CorruptEntryIsMiss ==
    ( /\ last.op = "generate" /\ Admitted(last) /\ last.ticket # NoTicket
      /\ ~WellFormedEntry(last.pre) )
    => /\ ~last.out.fn_raised
       /\ last.out.result.error.kind # "unexpected"
       /\ last.out.usedJira

\* C8 (amended): when the feature text holds no ticket-id token,
\* generate_test_cases reads no cache, asks neither Jira nor the model and
\* writes nothing; it returns the ticket-id-not-found error provided the
\* credential and provider checks, which come first, pass.
C8_NoTicketIdStopsEarly ==
    ( last.op = "generate" /\ last.ticket = NoTicket )
    => /\ ~last.out.readCache /\ ~last.out.usedJira /\ ~last.out.usedLLM
       /\ last.out.write = NoWrite
       /\ ~last.out.result.success
       /\ Admitted(last) => last.out.result.error.kind = "no_ticket_id"

\* C8: a call whose text glues a letter to the token, so that it holds none
C8_witness ==
    /\ last.op = "generate" /\ last.text = T_glued
    /\ last.out.result.error.kind = "no_ticket_id"

\* C8 (as claimed): a generate_test_cases call whose feature text holds no
\* ticket-id token returns the ticket-id-not-found error.
C8_NoTicketIdError ==
    ( /\ last.op = "generate" /\ last.ticket = NoTicket
      /\ last.out.result.error.kind \notin {"paste_first", "user_not_identified"} )
    => last.out.result.error.kind = "no_ticket_id"

\* C10: in each of the three flows a model output with status ready and an
\* empty or missing test_cases list yields an error and no test cases, never
\* a success, and no cache write.
C10_EmptyReadyIsError ==
    ( Answered(last) /\ StatusOf(last.llm) = "ready" /\ TestCasesOf(last.llm) = <<>> )
    => /\ last.out.result.error.kind \in {"no_test_cases_ready", "no_test_cases"}
       /\ last.out.result.test_cases = <<>> /\ last.out.result.df = <<>>
       /\ last.op # "more_info" => ~last.out.result.success
       /\ CacheUntouched(last)

\* C10: a regeneration answered with status ready and no test_cases key
C10_witness ==
    /\ last.op = "regenerate" /\ last.llm = O_missing /\ last.out.usedLLM
    /\ last.out.result.error.kind = "no_test_cases"

\* C11: in the initial and the more-info flow a model output that is a JSON
\* object whose status is none of ready, needs_more_info, invalid (a missing
\* status reads as the empty string) yields the unknown-status error that
\* carries the received status value unchanged; the call is neither a success
\* nor a request for more information, and it returns no test cases and no
\* context and writes no cache entry.
C11_UnknownStatusIsError ==
    ( /\ last.op \in {"generate", "more_info"} /\ Answered(last)
      /\ StatusOf(last.llm) \notin {"ready", "needs_more_info", "invalid"} )
    => LET r == last.out.result
       IN  /\ r.error = [kind |-> "unknown_status", status |-> StatusOf(last.llm),
                         raw |-> last.llm.raw]
           /\ r.test_cases = <<>> /\ r.df = <<>>
           /\ last.op = "generate" =>
                  ~r.success /\ ~r.needs_more_info /\ r.context_data = PyNone
           /\ last.op = "more_info" => r.context = PyNone
           /\ CacheUntouched(last)

\* C11: the more-info flow answered with the status "weird" and a test case
C11_witness ==
    /\ last.op = "more_info" /\ last.llm = O_weird /\ last.out.usedLLM
    /\ last.out.result.error.kind = "unknown_status"
    /\ last.out.result.error.status = "weird"

\* ---- C15 ----
\* the (selector kind, selector value) pairs of the actions from action i on,
\* each once, in the order they are first seen
RECURSIVE UniquePairs(_, _, _)
UniquePairs(actions, i, seen) ==
    IF i > Len(actions) THEN <<>>
    ELSE LET info == Get(actions[i], "selector", PyNone)
             pair == <<info.type, info.value>>
         IN  IF info = PyNone \/ IsStr(info) \/ pair \in seen
               THEN UniquePairs(actions, i + 1, seen)
             ELSE <<pair>> \o UniquePairs(actions, i + 1, seen \cup {pair})

\* the declaration lines of a Locators class: every line after the header but
\* the placeholder comment
Declarations(locators_python) ==
    SelectSeq(Tail(locators_python), LAMBDA l : l # <<"    # No locators recorded">>)

\* text s holds the text sub
Contains(s, sub) ==
    \E k \in 0..(Len(s) - Len(sub)) : SubSeq(s, k + 1, k + Len(sub)) = sub

\* C15: running the locator step on a recorder's action list, once or again,
\* leaves the same result: one declaration for each unique (selector kind,
\* selector value) pair of the actions, whatever kind the extractor gave it
\* (test id, role, css), in first-seen order.
C15_OneDeclarationPerPair ==
    ( last.op \in {"stop", "locators"} )
    => LET pairs == UniquePairs(last.self.actions, 1, {})
           decl == Declarations(last.self.locators_python)
       IN  /\ _extract_locators_from_actions(last.self) = last.self
           /\ Len(decl) = Len(pairs)
           /\ \A i \in 1..Len(pairs) :
                 i <= Len(decl) => Contains(decl[i], pairs[i][2])

\* ---- C16 ----
\* a code text with no line the extraction recognises as an action
NoActionLine(code) == \A i \in 1..Len(code) : code[i] = OtherLine

\* C16: for a text with no recognisable action line and a known start URL the
\* extraction yields exactly one action, Navigate(start_url), never an empty
\* list, when a recorder session is stopped and when pasted code is processed.
C16_FloorIsOneNavigate ==
    ( /\ last.op \in {"stop", "save"}
      /\ Truthy(last.url)
      /\ NoActionLine(last.code) )
    => last.actions = <<Navigate(last.url)>>

\* ---- C19 ----
\* C19: after Delete Recording on the recording found for a test case, that
\* flow is no longer stored: get_recorded_flow_for_test_case returns None and
\* has_recorded_flow is false for the test case; and a flow that Save & Process
\* Code has just stored is retrievable for its test case.
C19_DeletedFlowIsGone ==
    /\ ( last.op = "delete" )
       => /\ get_recorded_flow_for_test_case(codeCache, last.test_case_id, last.ticket_id)
                = {PyNone}
          /\ ~has_recorded_flow(codeCache, last.test_case_id, last.ticket_id)
    /\ ( /\ last.op = "save"
         /\ \E n \in DOMAIN codeCache :
               /\ codeCache[n].kind = "dict"
               /\ codeCache[n].d.actions = last.actions
               /\ codeCache[n].d.test_case_id = last.test_case_id )
       => has_recorded_flow(codeCache, last.test_case_id, last.ticket_id)

\* ---- C17 ----
\* the ready payload a successful generate_test_cases call normalised: the
\* cached entry on the cache-hit path, the model's object on the fresh path
FromCache(c) == c.out.result.raw = RawCached(c.ticket)
FreshReady(c) == c.out.usedLLM /\ IsObject(c.llm) /\ StatusOf(c.llm) = "ready"
ReadyPayload(c) == IF FromCache(c) THEN c.pre.d.test_cases ELSE TestCasesOf(c.llm)

\* test case tc of the payload with fewer expected results than steps came
\* out as f: one row per step, in order, with the expected result of the same
\* index or the empty string
PaddedRows(tc, f) ==
    LET steps == Get(tc, "steps", <<>>)
        expected_results == Get(tc, "expected_results", <<>>)
    IN  Len(expected_results) < Len(steps)
        => /\ Len(f.steps) = Len(steps)
           /\ \A i \in 1..Len(steps) :
                 /\ f.steps[i].Step = steps[i]
                 /\ f.steps[i].ExpectedResult =
                       IF i <= Len(expected_results) THEN expected_results[i] ELSE ""

\* C17: for a ready payload, a test case with s steps and e < s expected
\* results is normalised into exactly s step rows in the original order, row i
\* carrying expected result i when it exists and the empty string otherwise,
\* on the fresh-generation path and on the cache-hit path alike.
C17_MissingExpectedResultsAreEmpty ==
    ( /\ last.op = "generate" /\ ~last.out.raised /\ last.out.result.success
      /\ (FromCache(last) \/ FreshReady(last)) )
    => /\ Len(last.out.result.test_cases) = Len(ReadyPayload(last))
       /\ \A k \in 1..Len(ReadyPayload(last)) :
             PaddedRows(ReadyPayload(last)[k], last.out.result.test_cases[k])

\* C17: a cache hit on the entry a fresh generation wrote, its test case with
\* two steps and one expected result: the second row has the empty expected
\* result, as it had in the fresh result
C17_witness ==
    /\ last.op = "generate" /\ last.out.result.success /\ FromCache(last)
    /\ last.pre = JsonDict(O_ready1.data)
    /\ hist[last.ticket] = last.out.result.test_cases
    /\ Len(last.out.result.test_cases[1].steps) = 2
    /\ last.out.result.test_cases[1].steps[1].ExpectedResult = "e1"
    /\ last.out.result.test_cases[1].steps[2].ExpectedResult = ""

-----------------------------------------------------------------------------
(* Texts of the model, character by character (SpecText) *)

\* str.find(sub, start): the first index from start on where sub begins, 0 for
\* Python's -1 (indices start at 1)
Find(text, sub, start) ==
    LET hits == { k \in start..(Len(text) - Len(sub) + 1) :
                     SubSeq(text, k, k + Len(sub) - 1) = sub }
    IN  IF hits = {} THEN 0 ELSE Min(hits)

\* a brace outside a string changes the counter
brace_counts_always(in_string) == TRUE

\* if not in_string: (generator.py, lines 374 and 794)
brace_counts(in_string) == ~in_string

\* the for loop of the brace scan from index i on (lines 361-381, 784-801):
\* the index of the closing brace at which it breaks, 0 if it runs out
RECURSIVE scan_from(_, _, _, _, _)
scan_from(generation_output, i, brace_count, in_string, escape_next) ==
    IF i > Len(generation_output) THEN 0
    ELSE LET char == generation_output[i] IN
         IF escape_next
           THEN scan_from(generation_output, i + 1, brace_count, in_string, FALSE)
         ELSE IF char = "\\"
           THEN scan_from(generation_output, i + 1, brace_count, in_string, TRUE)
         ELSE IF char = "\""
           THEN scan_from(generation_output, i + 1, brace_count, ~in_string, FALSE)
         ELSE IF brace_counts(in_string) /\ char = "{"
           THEN scan_from(generation_output, i + 1, brace_count + 1, in_string, FALSE)
         ELSE IF brace_counts(in_string) /\ char = "}"
           THEN IF brace_count - 1 = 0 THEN i
                ELSE scan_from(generation_output, i + 1, brace_count - 1, in_string, FALSE)
         ELSE scan_from(generation_output, i + 1, brace_count, in_string, FALSE)

\* the text the generation flows hand to json.loads (lines 352-391, 776-809):
\* the span of the scan, or the whole output when there is no "{" or the
\* counter never returns to zero
brace_scan(generation_output) ==
    LET start == Find(generation_output, <<"{">>, 1)
        end == scan_from(generation_output, start, 0, FALSE, FALSE)
    IN  IF start # 0 /\ end # 0 THEN SubSeq(generation_output, start, end)
        ELSE generation_output

\* JSON objects: flat, nested, braces inside a string, an escaped quote
\* before a brace inside a string, an escaped backslash at the end of a string
J_flat == <<"{", "\"", "a", "\"", ":", "\"", "v", "\"", "}">>
J_nested ==
    <<"{", "\"", "a", "\"", ":", "{", "\"", "b", "\"", ":", "\"", "v", "\"", "}", ",",
      "\"", "c", "\"", ":", "{", "}", "}">>
J_brace_str == <<"{", "\"", "a", "\"", ":", "\"", "}", "{", "\"", "}">>
J_quote_esc == <<"{", "\"", "a", "\"", ":", "\"", "\\", "\"", "}", "\"", "}">>
J_backslash ==
    <<"{", "\"", "a", "\"", ":", "\"", "\\", "\\", "\"", ",",
      "\"", "b", "\"", ":", "\"", "}", "\"", "}">>
ScanObjects == {J_flat, J_nested, J_brace_str, J_quote_esc, J_backslash}

\* the three backquotes of a code fence, one piece of a text (written with
\* tildes here)
Backticks == "~~~"

\* prose before and after the object, and the code fence around it
ScanBefore ==
    { <<>>, <<"a", " ">>, <<"a", "\"", " ">>, <<"a", "{", "a", "}", " ">>, <<"{", " ">> }
ScanAfter == { <<>>, <<" ", "a">>, <<" ", "}", "a">>, <<" ", "{", "a", "}">> }
Fence(open, close) == [open |-> open, close |-> close]
NoFence == Fence(<<>>, <<>>)
JsonFence == Fence(<<Backticks, "j", "s", "o", "n", "\n">>, <<"\n", Backticks>>)
PlainFence == Fence(<<Backticks, "\n">>, <<"\n", Backticks>>)
Fences == {NoFence, JsonFence, PlainFence}

\* str.rfind(sub): the last index where sub begins, 0 for Python's -1
RFind(text, sub) ==
    LET hits == { k \in 1..(Len(text) - Len(sub) + 1) :
                     SubSeq(text, k, k + Len(sub) - 1) = sub }
    IN  IF hits = {} THEN 0 ELSE Max(hits)

\* str.strip(): without the white space at both ends
Whitespace == {" ", "\n"}
RECURSIVE lstrip(_)
lstrip(text) ==
    IF text # <<>> /\ Head(text) \in Whitespace THEN lstrip(Tail(text)) ELSE text
RECURSIVE rstrip(_)
rstrip(text) ==
    IF text # <<>> /\ text[Len(text)] \in Whitespace
      THEN rstrip(SubSeq(text, 1, Len(text) - 1)) ELSE text
strip(text) == lstrip(rstrip(text))

\* text[start:end] of Python for the indices of Find (start is the index
\* of the first piece taken, end the index after the last; end 0 is Python's
\* -1, which leaves the last piece out)
Slice(text, start, end) ==
    SubSeq(text, start, IF end = 0 THEN Len(text) - 1 ELSE end - 1)

\* str.replace(old, new): every occurrence, left to right
RECURSIVE ReplaceAll(_, _, _)
ReplaceAll(text, old, new) ==
    IF Len(text) < Len(old) THEN text
    ELSE IF SubSeq(text, 1, Len(old)) = old
      THEN new \o ReplaceAll(SubSeq(text, Len(old) + 1, Len(text)), old, new)
    ELSE <<Head(text)>> \o ReplaceAll(Tail(text), old, new)

\* the string literals of the texts, each one piece, and the strings they stand for
StringLits ==
    { "\"locators\"", "\"reusable_functions\"", "\"test_functions\"",
      "\"cursor_prompt\"", "\"x\"", "\"y\"", "\"r\"", "\"t\"", "\"c\"" }
Unquoted(lit) ==
    CASE lit = "\"locators\"" -> "locators"
      [] lit = "\"reusable_functions\"" -> "reusable_functions"
      [] lit = "\"test_functions\"" -> "test_functions"
      [] lit = "\"cursor_prompt\"" -> "cursor_prompt"
      [] lit = "\"x\"" -> "x"
      [] lit = "\"y\"" -> "y"
      [] lit = "\"r\"" -> "r"
      [] lit = "\"t\"" -> "t"
      [] lit = "\"c\"" -> "c"

\* json.loads on a text: a JSON value between optional white space.  Parsed
\* is what the decoder has after a value: the index after it, its type and
\* the Python value; NoParse is JSONDecodeError
Parsed(next, type, val) == [ok |-> TRUE, next |-> next, type |-> type, val |-> val]
NoParse == [ok |-> FALSE, next |-> 0, type |-> "error", val |-> <<>>]
At(text, i) == IF i >= 1 /\ i <= Len(text) THEN text[i] ELSE "end"
RECURSIVE skip_ws(_, _)
skip_ws(text, i) == IF At(text, i) \in Whitespace THEN skip_ws(text, i + 1) ELSE i

RECURSIVE parse_value(_, _)
RECURSIVE parse_members(_, _, _)
RECURSIVE parse_elements(_, _, _)
\* the members of an object from index i on, after "{" or after a comma
\* (first tells which): a closing brace is allowed only right after "{"
parse_members(text, i, first) ==
    LET k == skip_ws(text, i)
        colon == skip_ws(text, k + 1)
        v == parse_value(text, colon + 1)
        sep == skip_ws(text, v.next)
        rest == parse_members(text, sep + 1, FALSE)
    IN  IF first /\ At(text, k) = "}" THEN Parsed(k + 1, "dict", EmptyDict)
        ELSE IF At(text, k) \notin StringLits \/ At(text, colon) # ":" THEN NoParse
        ELSE IF ~v.ok THEN NoParse
        ELSE IF At(text, sep) = "}"
          THEN Parsed(sep + 1, "dict", [key \in {Unquoted(text[k])} |-> v.val])
        ELSE IF At(text, sep) # "," \/ ~rest.ok THEN NoParse
        ELSE Parsed(rest.next, "dict",
                    [key \in DOMAIN rest.val \cup {Unquoted(text[k])} |->
                        IF key \in DOMAIN rest.val THEN rest.val[key] ELSE v.val])
\* the elements of an array, likewise
parse_elements(text, i, first) ==
    LET k == skip_ws(text, i)
        v == parse_value(text, k)
        sep == skip_ws(text, v.next)
        rest == parse_elements(text, sep + 1, FALSE)
    IN  IF first /\ At(text, k) = "]" THEN Parsed(k + 1, "list", <<>>)
        ELSE IF ~v.ok THEN NoParse
        ELSE IF At(text, sep) = "]" THEN Parsed(sep + 1, "list", <<v.val>>)
        ELSE IF At(text, sep) # "," \/ ~rest.ok THEN NoParse
        ELSE Parsed(rest.next, "list", <<v.val>> \o rest.val)
parse_value(text, i) ==
    LET k == skip_ws(text, i)
    IN  IF At(text, k) \in StringLits THEN Parsed(k + 1, "str", Unquoted(text[k]))
        ELSE IF At(text, k) = "{" THEN parse_members(text, k + 1, TRUE)
        ELSE IF At(text, k) = "[" THEN parse_elements(text, k + 1, TRUE)
        ELSE NoParse
json_loads(text) ==
    LET v == parse_value(text, 1)
    IN  IF v.ok /\ skip_ws(text, v.next) = Len(text) + 1 THEN v ELSE NoParse

\* parse_code_json, lines 252-272: the text it hands to json.loads
json_str_of(raw_output) ==
    LET json_fence == Find(raw_output, <<Backticks, "j", "s", "o", "n">>, 1)
        fence == Find(raw_output, <<Backticks>>, 1)
        first == Find(raw_output, <<"{">>, 1)
        last_end == RFind(raw_output, <<"}">>) + 1
        in_fence == strip(Slice(raw_output, fence + 1,
                                Find(raw_output, <<Backticks>>, fence + 1)))
    IN  IF json_fence # 0
          THEN strip(Slice(raw_output, json_fence + 5,
                           Find(raw_output, <<Backticks>>, json_fence + 5)))
        ELSE IF fence # 0
          THEN IF Len(in_fence) >= 4 /\ SubSeq(in_fence, 1, 4) = <<"j", "s", "o", "n">>
                 THEN strip(SubSeq(in_fence, 5, Len(in_fence)))
                 ELSE in_fence
        ELSE IF first >= 1 /\ last_end > first
          THEN Slice(raw_output, first, last_end)
        ELSE raw_output

\* the recovery rewrite of line 288
remove_trailing_commas(json_str) ==
    ReplaceAll(ReplaceAll(json_str, <<",", "\n", "}">>, <<"\n", "}">>),
               <<",", "\n", "]">>, <<"\n", "]">>)

\* the parsed value if it is an object with the required keys, else None
\* (lines 278-282, 290-292)
validated(parsed) ==
    IF parsed.type = "dict" /\ required_keys \subseteq DOMAIN parsed.val
      THEN parsed.val ELSE PyNone

\* parse_code_json(raw_output) on the text itself
parse_code_json_text(raw_output) ==
    LET json_str == json_str_of(raw_output)
        parsed == json_loads(json_str)
        repaired == json_loads(remove_trailing_commas(json_str))
    IN  IF parsed.ok THEN validated(parsed)
        ELSE IF repaired.ok THEN validated(repaired)
        ELSE PyNone

\* what stands between the last item and the closing bracket: a line break
\* (valid JSON), or a trailing comma followed by nothing, by a line break,
\* by a space, or by a line break and the bracket's indentation
Trail_valid == <<"\n">>
Trail_tight == <<",">>
Trail_newline == <<",", "\n">>
Trail_space == <<",", " ">>
Trail_indent == <<",", "\n", " ", " ">>
TrailingLayouts == {Trail_valid, Trail_tight, Trail_newline, Trail_space, Trail_indent}

\* a code object with the four required keys, with the given layouts before
\* the "]" of its list and before its own "}"
CodeObject(in_array, in_object) ==
    <<"{", "\n", "\"locators\"", ":", " ", "[", "\"x\"", ",", " ", "\"y\"">> \o in_array \o
    <<"]", ",", "\n", "\"reusable_functions\"", ":", " ", "\"r\"", ",", "\n",
      "\"test_functions\"", ":", " ", "\"t\"", ",", "\n",
      "\"cursor_prompt\"", ":", " ", "\"c\"">> \o in_object \o <<"}">>
ParseProse == { <<>>, <<"a", " ">> }

\* the last call on a text
NoText ==
    [op |-> "none", before |-> <<>>, fence |-> NoFence, object |-> <<>>, after |-> <<>>,
     text |-> <<>>, selected |-> <<>>, parsed |-> PyNone]

InitText ==
    /\ disk = NoDisk /\ procs = NoProcs /\ _recorder_instance = PyNone /\ codegen = PyNone
    /\ cache = [t \in TicketIds |-> Absent]
    /\ codeCache = EmptyDict
    /\ session = FreshSession
    /\ last = NoText
    /\ hist = [t \in TicketIds |-> <<>>]

\* the brace scan of generate_test_cases and
\* generate_test_cases_with_additional_info on a model output
BraceScan ==
    /\ \E before \in ScanBefore, fence \in Fences, object \in ScanObjects,
          after \in ScanAfter :
         LET generation_output == before \o fence.open \o object \o fence.close \o after
         IN  last' = [NoText EXCEPT !.op = "scan", !.before = before, !.fence = fence,
                                    !.object = object, !.after = after,
                                    !.text = generation_output,
                                    !.selected = brace_scan(generation_output)]
    /\ UNCHANGED <<cache, codeCache, session, hist, disk, procs, _recorder_instance, codegen>>

\* parse_code_json(raw_output) on a model output
ParseCodeJson ==
    /\ \E before \in ParseProse, fence \in Fences,
          in_array \in TrailingLayouts, in_object \in TrailingLayouts :
         LET object == CodeObject(in_array, in_object)
             after == IF before = <<>> THEN <<>> ELSE <<" ", "a">>
             raw_output == before \o fence.open \o object \o fence.close \o after
         IN  last' = [NoText EXCEPT !.op = "parse", !.before = before, !.fence = fence,
                                    !.object = object, !.after = after,
                                    !.text = raw_output,
                                    !.selected = json_str_of(raw_output),
                                    !.parsed = parse_code_json_text(raw_output)]
    /\ UNCHANGED <<cache, codeCache, session, hist, disk, procs, _recorder_instance, codegen>>

NextText ==
    \/ BraceScan
    \/ ParseCodeJson

SpecText == InitText /\ [][NextText]_vars

\* C20 (amended): given model output that holds one JSON object surrounded by
\* prose and at most one level of code fence, with no "{" in the prose before
\* the object, the brace scan selects exactly the object's text, from its
\* first "{" to the "}" where the counter returns to zero; braces inside a
\* double-quoted string or right after a backslash do not count, nested
\* objects are part of the span.
C20_ScanSelectsTheObject ==
    ( last.op = "scan" /\ Find(last.before, <<"{">>, 1) = 0 )
    => last.selected = last.object

\* C20: an object with an escaped quote and a brace inside a string, in a json
\* fence between prose that holds a quote and a closing brace
C20_witness ==
    /\ last.op = "scan" /\ last.object = J_quote_esc /\ last.fence = JsonFence
    /\ last.before = <<"a", "\"", " ">> /\ last.after = <<" ", "}", "a">>
    /\ last.selected = J_quote_esc

\* C20 (as claimed): given model output that holds exactly one JSON object
\* surrounded by prose and at most one level of code fence, the brace scan
\* selects exactly that object's text.
C20_ScanSelectsTheObjectInAnyProse ==
    ( last.op = "scan" ) => last.selected = last.object

\* ---- C18 ----
\* the object a text of CodeObject stands for once its trailing commas are gone
CodeObjectValue == json_loads(CodeObject(Trail_valid, Trail_valid)).val

\* the text holds a trailing comma before a closing bracket
HasTrailingComma(text) ==
    \E i \in 1..Len(text) :
        text[i] = "," /\ At(text, skip_ws(text, i + 1)) \in {"}", "]"}

\* C18: for a JSON object text that is valid except for trailing commas
\* before a closing "}" or "]", whatever white space stands between the comma
\* and the bracket, parse_code_json succeeds after its recovery rewrite and
\* returns the parsed object when the four required keys are present.
C18_TrailingCommasAreRepaired ==
    ( last.op = "parse" /\ HasTrailingComma(last.object) )
    => last.parsed = CodeObjectValue

\* ---- C21 ----
\* the call asked the model and got a text that json.loads rejects, also as a
\* whole, and that in the initial flow holds no old-format array either
NotJson(c) ==
    /\ c.op \in {"generate", "more_info", "regenerate"}
    /\ c.out.usedLLM /\ c.llm.k = "text" /\ c.llm.parse = "error"
OldFormatMatch(c) == c.op = "generate" /\ c.llm.legacy # "none"

\* the result the claim names: the distinct error with the raw output, no
\* test cases, no cache write, no success (a handler's result has the flag,
\* the function's tuple has the error alone)
DistinctJsonError(c) ==
    /\ ~c.out.raised
    /\ "success" \in DOMAIN c.out.result => ~c.out.result.success
    /\ c.out.result.error = [kind |-> "not_json", raw |-> c.llm.raw]
    /\ c.out.result.test_cases = <<>>
    /\ c.out.write = NoWrite

CarriedFields == {"ticket_id", "jira_key", "jira_project", "jira_summary", "jira_description"}

\* C22: in a more-info round the description submitted for validation is the
\* context's jira_description followed by the round's additional text; key,
\* project and summary are the context's; no cache read is done; and the
\* context handed back with a needs_more_info outcome keeps ticket_id,
\* jira_key, jira_project, jira_summary and jira_description, with only
\* validation_result and questions replaced.
C22_RoundCarriesContextForward ==
    ( last.op = "more_info" /\ last.out.usedLLM )
    => LET ctx == last.context_data
           sent == last.asked.jira_description
           n == Len(ctx.jira_description)
           back == last.out.result.context
       IN  /\ Len(sent) >= n + Len(last.additional_info)
           /\ SubSeq(sent, 1, n) = ctx.jira_description
           /\ Contains(SubSeq(sent, n + 1, Len(sent)), last.additional_info)
           /\ last.asked.jira_key = ctx.jira_key
           /\ last.asked.jira_project = ctx.jira_project
           /\ last.asked.jira_summary = ctx.jira_summary
           /\ ~last.out.readCache /\ ~last.out.usedJira
           /\ last.out.result.error.kind = "needs_more_info"
              => /\ DOMAIN back = DOMAIN ctx
                 /\ \A k \in CarriedFields : back[k] = ctx[k]
                 /\ back.validation_result = last.llm.data
                 /\ back.questions = QuestionsOf(last.llm)

\* C22: a round on the context of a ticket with a description, answered with
\* needs_more_info again: the description went out with the round's text
\* after it, and the context came back with new questions only
C22_witness ==
    /\ last.op = "more_info" /\ last.llm = O_nmi
    /\ last.context_data = ContextOf(TicketA, J_full)
    /\ Truthy(last.context_data.jira_description)
    /\ last.asked.jira_description # last.context_data.jira_description
    /\ last.out.result.context.jira_description = last.context_data.jira_description
    /\ last.out.result.context.questions = <<"q1">>

\* ---- C23, C24 ----
\* the selector kind the accessor of a line stands for, in the order of
\* priority test id, role, text, generic locator
Accessors == {"get_by_test_id", "get_by_role", "get_by_text", "locator"}
KindOfAccessor(by) ==
    CASE by = "get_by_test_id" -> "testid"
      [] by = "get_by_role" -> "role"
      [] by = "get_by_text" -> "text"
      [] by = "locator" -> "css"

\* the actions of one type among recorded actions, in their order
OfType(actions, type) == SelectSeq(actions, LAMBDA a : a.type = type)

\* one Click per click line of the code, with the accessor's kind and its
\* quoted literal; one Fill per fill line, with the value passed to fill
RECURSIVE ClaimedClicks(_)
ClaimedClicks(code) ==
    IF code = <<>> THEN <<>>
    ELSE (IF Head(code).kind = "click" /\ Head(code).by \in Accessors
            THEN <<Click(SelectorInfo(KindOfAccessor(Head(code).by), Head(code).arg))>>
            ELSE <<>>) \o ClaimedClicks(Tail(code))
RECURSIVE ClaimedFills(_)
ClaimedFills(code) ==
    IF code = <<>> THEN <<>>
    ELSE (IF Head(code).kind = "fill" /\ Head(code).by \in Accessors
            THEN <<Fill(SelectorInfo(KindOfAccessor(Head(code).by), Head(code).arg),
                        Head(code).value)>>
            ELSE <<>>) \o ClaimedFills(Tail(code))

\* C23: every line with the click invocation gives one Click action whose
\* selector kind is that of the line's accessor (test id, role, text, generic
\* locator) and whose value is the accessor's first quoted literal, in the
\* extraction of a stopped recorder and of pasted code.
C23_ClickLineGivesClick ==
    ( last.op \in {"stop", "save"} /\ last.code # NoOutputFile )
    => OfType(last.actions, "click") = ClaimedClicks(last.code)

\* C24: every line with the fill invocation gives one Fill action whose
\* selector is resolved as for a click line with the same accessor and whose
\* value is the first quoted literal passed to fill.
C24_FillLineGivesFill ==
    ( last.op = "stop" /\ last.code # NoOutputFile )
    => OfType(last.actions, "fill") = ClaimedFills(last.code)

\* ---------------------------------------------------------------------------
\* C25: one action per line at most, in the order of the lines
\* ---------------------------------------------------------------------------

\* the pattern an action of a type is extracted by
PatternOfType(type) ==
    CASE type = "navigate" -> "goto" [] type = "click" -> "click" [] type = "fill" -> "fill"
      [] OTHER -> "other"

\* action a can have come from the line: the line holds its pattern and the
\* literal of the action is the one on the line
ComesFrom(a, line) ==
    /\ Holds(line, PatternOfType(a.type))
    /\ CASE a.type = "navigate" -> a.url = line.url
         [] a.type = "click" -> a.selector.value = line.arg
         [] a.type = "fill" -> a.selector.value = line.arg /\ a.value = line.value
         [] OTHER -> FALSE

\* a way to assign the actions to lines, each to a later line than the one before
InSourceOrder(actions, code) ==
    \E f \in [1..Len(actions) -> 1..Len(code)] :
       /\ \A i \in 1..Len(actions) : ComesFrom(actions[i], code[f[i]])
       /\ \A i \in 1..Len(actions) : \A j \in 1..Len(actions) : i < j => f[i] < f[j]

\* C25: the actions a stop extracts from the lines of a codegen file come one
\* from a line at most and in the order of the lines (lines that match no
\* pattern give nothing and no error); when no line gives an action the list
\* is the floor, one Navigate to the start URL.
C25_OneActionPerLineInOrder ==
    ( last.op = "stop" /\ last.code # NoOutputFile )
    => \/ InSourceOrder(last.actions, last.code)
       \/ /\ last.actions = <<Navigate(last.url)>>
          /\ \A i \in 1..Len(last.code) : line_actions(last.code[i]) = <<>>

\* a stop on a file with a line that matches no pattern and a line that holds
\* two patterns, three actions out of four lines
C25_witness ==
    /\ last.op = "stop"
    /\ last.code = X_two
    /\ last.actions = <<Navigate(U_login), Click(SelectorInfo("css", V_css)),
                        Fill(SelectorInfo("css", V_css), V_fill)>>

\* ---------------------------------------------------------------------------
\* The recorder objects: PlaywrightCodegenRecorder used through its own
\* methods, BrowserRecorder and the module global of recorder.py
\* ---------------------------------------------------------------------------

MaxStops == 3          \* stop() calls on one codegen recorder after a start
MaxSessions == 3       \* BrowserRecorder objects start_recording_session creates
RecUrls == {U_start, U_login}

\* the output file of a start: the temporary directory is new, codegen writes
\* the file when its browser is closed or the process is ended
Unwritten == <<[kind |-> "unwritten"]>>

\* how PlaywrightCodegenRecorder.start ends: the process runs; Popen raises
\* (npx is missing); the process has exited after three seconds
StartOutcomes == {"ok", "not_found", "exited"}

\* PlaywrightCodegenRecorder.__init__ (stops counts the stop() calls since
\* the last start, output_file is the content of python_output_file)
PlaywrightCodegenRecorder_init ==
    [is_recording |-> FALSE, start_url |-> <<>>, generated_python_code |-> <<>>,
     generated_javascript_code |-> <<>>, recorded_actions |-> <<>>,
     codegen_process |-> "none", output_file |-> Unwritten, stops |-> 0]

\* PlaywrightCodegenRecorder.start(url): the object after and whether it raised
PlaywrightCodegenRecorder_start(self, url, outcome) ==
    IF self.is_recording THEN [self |-> self, raised |-> FALSE]
    ELSE [self |-> [self EXCEPT !.start_url = url, !.is_recording = TRUE,
                                !.generated_python_code = <<>>,
                                !.generated_javascript_code = <<>>,
                                !.recorded_actions = <<>>,
                                !.output_file = Unwritten, !.stops = 0,
                                !.codegen_process =
                                    CASE outcome = "ok" -> "running"
                                      [] outcome = "exited" -> "exited"
                                      [] OTHER -> @],
          raised |-> outcome # "ok"]

\* _convert_python_to_javascript: the fixed text for no code; else every
\* page. line gets "await " before and ";" after it, the other lines stay or
\* are the import and the def line rewritten, "});" closes the text
JsTemplate == <<[kind |-> "js_template"]>>
JsClose == [kind |-> "js_close"]
js_line(line) == IF line.kind = "other" THEN line ELSE [kind |-> "js_await", line |-> line]
_convert_python_to_javascript(python_code) ==
    IF ~Truthy(python_code) THEN JsTemplate
    ELSE [i \in 1..Len(python_code) |-> js_line(python_code[i])] \o <<JsClose>>

\* PlaywrightCodegenRecorder.stop(): the object after; the dict it returns
\* is its generated_python_code, generated_javascript_code and
\* recorded_actions.  written is what the process leaves in the output file
\* when it is ended (NoOutputFile: nothing); a file once written stays
PlaywrightCodegenRecorder_stop(self, written) ==
    LET output_file == IF self.output_file = Unwritten /\ self.codegen_process = "running"
                         THEN written ELSE self.output_file
        code == IF output_file \in {NoOutputFile, Unwritten}
                  THEN basic_code(self.start_url) ELSE output_file
    IN  [self EXCEPT !.is_recording = FALSE,
                     !.codegen_process = IF @ = "none" THEN "none" ELSE "exited",
                     !.output_file = output_file,
                     !.stops = @ + 1,
                     !.generated_python_code = code,
                     !.generated_javascript_code = _convert_python_to_javascript(code),
                     !.recorded_actions =
                         extract_actions_from_code(code, self.start_url,
                                                   self.recorded_actions)]

\* the last call on a recorder object or on the session functions
NoObj ==
    [op |-> "none", url |-> <<>>, raised |-> FALSE, ret |-> PyNone,
     before |-> PyNone, stopped |-> PyNone]

InitCodegen ==
    /\ disk = NoDisk /\ procs = NoProcs
    /\ cache = [t \in TicketIds |-> Absent]
    /\ codeCache = EmptyDict
    /\ session = FreshSession
    /\ hist = <<>>
    /\ _recorder_instance = PyNone
    /\ codegen = PlaywrightCodegenRecorder_init
    /\ last = NoObj

\* recorder.start(url)
CodegenStart ==
    /\ \E url \in RecUrls, outcome \in StartOutcomes :
         LET r == PlaywrightCodegenRecorder_start(codegen, url, outcome)
         IN  /\ codegen' = r.self
             /\ last' = [NoObj EXCEPT !.op = "start", !.url = url, !.raised = r.raised,
                                      !.before = codegen]
    /\ UNCHANGED <<cache, codeCache, session, hist, disk, procs, _recorder_instance>>

\* recorder.stop()
CodegenStop ==
    /\ codegen.stops < MaxStops
    /\ \E written \in RecTexts \cup {NoOutputFile} :
         LET self == PlaywrightCodegenRecorder_stop(codegen, written)
         IN  /\ codegen' = self
             /\ last' = [NoObj EXCEPT !.op = "stop", !.before = codegen,
                                      !.ret = [python |-> self.generated_python_code,
                                               javascript |-> self.generated_javascript_code,
                                               actions |-> self.recorded_actions]]
    /\ UNCHANGED <<cache, codeCache, session, hist, disk, procs, _recorder_instance>>

NextCodegen ==
    \/ CodegenStart
    \/ CodegenStop

SpecCodegen == InitCodegen /\ [][NextCodegen]_vars

\* ---------------------------------------------------------------------------
\* C28: a repeated stop and the recorded actions
\* ---------------------------------------------------------------------------

\* C28: after a start, the action list every stop returns holds each action
\* extracted from the generated code once: it is the list one scan of that
\* code gives, however many times stop has been called.
C28_StopIsIdempotent ==
    ( /\ last.op = "stop"
      /\ Truthy(codegen.start_url) )
    => last.ret.actions =
           extract_actions_from_code(last.ret.python, codegen.start_url, <<>>)

\* ---------------------------------------------------------------------------
\* The recording session: start_recording_session, stop_recording_session
\* ---------------------------------------------------------------------------

\* BrowserRecorder(): the object __init__ leaves; id tells the objects apart
BrowserRecorder(id) ==
    [id |-> id, codegen_recorder |-> PyNone, actions |-> <<>>,
     generated_code_python |-> <<>>, generated_code_javascript |-> <<>>,
     locators_python |-> <<>>, locators_javascript |-> <<>>,
     is_recording |-> FALSE, start_url |-> <<>>]

\* BrowserRecorder.start(url): the object after and whether it raised
BrowserRecorder_start(self, url, outcome) ==
    IF self.is_recording THEN [self |-> self, raised |-> FALSE]
    ELSE LET r == PlaywrightCodegenRecorder_start(PlaywrightCodegenRecorder_init, url, outcome)
         IN  IF r.raised
               THEN [self |-> [self EXCEPT !.codegen_recorder = r.self], raised |-> TRUE]
               ELSE [self |-> [self EXCEPT !.codegen_recorder = r.self,
                                           !.start_url = url, !.is_recording = TRUE,
                                           !.actions = <<>>,
                                           !.generated_code_python = <<>>,
                                           !.generated_code_javascript = <<>>],
                     raised |-> FALSE]

\* BrowserRecorder.stop(): the object after (stop raises nothing: each of its
\* steps is inside a try)
BrowserRecorder_stop(self, written) ==
    IF self.codegen_recorder = PyNone THEN [self EXCEPT !.is_recording = FALSE]
    ELSE LET result == PlaywrightCodegenRecorder_stop(self.codegen_recorder, written)
         IN  [_extract_locators_from_actions(
                  [self EXCEPT !.is_recording = FALSE,
                               !.generated_code_python = result.generated_python_code,
                               !.generated_code_javascript = result.generated_javascript_code,
                               !.actions = result.recorded_actions])
                EXCEPT !.codegen_recorder = PyNone]

\* BrowserRecorder.get_generated_code()
get_generated_code(self) ==
    [python |-> self.generated_code_python,
     javascript |-> self.generated_code_javascript,
     locators_python |-> self.locators_python,
     locators_javascript |-> self.locators_javascript]

\* the recorders created so far with recorder r in the state it is in now
Put(recorders, r) == IF r = PyNone THEN recorders ELSE [recorders EXCEPT ![r.id] = r]

\* start_recording_session without the stop of the session held before
start_recording_session_no_stop(instance, recorders, url, outcome, written) ==
    LET r == BrowserRecorder_start(BrowserRecorder(Len(recorders) + 1), url, outcome)
    IN  IF r.raised
          THEN [instance |-> PyNone, raised |-> TRUE, ret |-> PyNone, stopped |-> PyNone,
                recorders |-> Append(recorders, BrowserRecorder_stop(r.self, NoOutputFile))]
          ELSE [instance |-> r.self, raised |-> FALSE, ret |-> r.self, stopped |-> PyNone,
                recorders |-> Append(recorders, r.self)]

\* start_recording_session(url): the module global after, whether it raised,
\* what it returned, the recorder it stopped first and all recorders after
start_recording_session(instance, recorders, url, outcome, written) ==
    LET stopped == IF instance # PyNone THEN BrowserRecorder_stop(instance, written)
                   ELSE PyNone
        r == BrowserRecorder_start(BrowserRecorder(Len(recorders) + 1), url, outcome)
        before == Put(recorders, stopped)
    IN  IF r.raised
          THEN [instance |-> PyNone, raised |-> TRUE, ret |-> PyNone, stopped |-> stopped,
                recorders |-> Append(before, BrowserRecorder_stop(r.self, NoOutputFile))]
          ELSE [instance |-> r.self, raised |-> FALSE, ret |-> r.self, stopped |-> stopped,
                recorders |-> Append(before, r.self)]

\* stop_recording_session(): get_generated_code() is called, then stop()
stop_recording_session(instance, recorders, written) ==
    IF instance # PyNone
      THEN LET stopped == BrowserRecorder_stop(instance, written)
           IN  [instance |-> PyNone, ret |-> get_generated_code(instance),
                stopped |-> stopped, recorders |-> Put(recorders, stopped)]
      ELSE [instance |-> PyNone, ret |-> PyNone, stopped |-> PyNone,
            recorders |-> recorders]

\* what the codegen process of a session leaves in its output file
SessTexts == {X_example, X_none, X_dups, NoOutputFile}

\* hist holds every BrowserRecorder created, in the state it is in
InitSess ==
    /\ disk = NoDisk /\ procs = NoProcs
    /\ cache = [t \in TicketIds |-> Absent]
    /\ codeCache = EmptyDict
    /\ session = FreshSession
    /\ hist = <<>>
    /\ _recorder_instance = PyNone
    /\ codegen = PyNone
    /\ last = NoObj

StartRecordingSession ==
    /\ Len(hist) < MaxSessions
    /\ \E url \in RecUrls, outcome \in StartOutcomes, written \in SessTexts :
         LET r == start_recording_session(_recorder_instance, hist, url, outcome, written)
         IN  /\ _recorder_instance' = r.instance
             /\ hist' = r.recorders
             /\ last' = [NoObj EXCEPT !.op = "start_session", !.url = url,
                                      !.raised = r.raised, !.ret = r.ret,
                                      !.before = _recorder_instance,
                                      !.stopped = r.stopped]
    /\ UNCHANGED <<cache, codeCache, session, disk, procs, codegen>>

StopRecordingSession ==
    /\ \E written \in SessTexts :
         LET r == stop_recording_session(_recorder_instance, hist, written)
         IN  /\ _recorder_instance' = r.instance
             /\ hist' = r.recorders
             /\ last' = [NoObj EXCEPT !.op = "stop_session", !.ret = r.ret,
                                      !.before = _recorder_instance,
                                      !.stopped = r.stopped]
    /\ UNCHANGED <<cache, codeCache, session, disk, procs, codegen>>

NextSess ==
    \/ StartRecordingSession
    \/ StopRecordingSession

SpecSess == InitSess /\ [][NextSess]_vars

\* ---------------------------------------------------------------------------
\* C27: what stop_recording_session returns
\* ---------------------------------------------------------------------------

\* C27: the code stop_recording_session returns is the code of the session it
\* stopped: python, javascript and the two locator texts are those the
\* recorder holds after its stop() read the output and extracted the locators.
C27_StopReturnsTheGeneratedCode ==
    ( last.op = "stop_session" /\ last.before # PyNone )
    => last.ret = get_generated_code(last.stopped)

\* ---------------------------------------------------------------------------
\* C29: one active recorder at most
\* ---------------------------------------------------------------------------

Active == {i \in 1..Len(hist) : hist[i].is_recording}

\* C29: at every moment one recorder at most is recording, and it is the one
\* the module global holds.  A start that returns leaves the global on the new
\* recorder, recording on the URL, and has stopped the recorder held before; a
\* start that raises and a stop leave the global None.
C29_AtMostOneActiveRecorder ==
    /\ Cardinality(Active) <= 1
    /\ \A i \in Active : _recorder_instance = hist[i]
    /\ ( last.op = "start_session" /\ ~last.raised )
       => /\ _recorder_instance = last.ret
          /\ _recorder_instance = hist[Len(hist)]
          /\ _recorder_instance.is_recording
          /\ _recorder_instance.start_url = last.url
          /\ ( last.before # PyNone
               => /\ _recorder_instance.id # last.before.id
                  /\ ~hist[last.before.id].is_recording
                  /\ hist[last.before.id].codegen_recorder = PyNone )
    /\ ( last.op = "start_session" /\ last.raised ) => _recorder_instance = PyNone
    /\ last.op = "stop_session" => _recorder_instance = PyNone

\* a start that returned while another recorder was held and recording
C29_witness ==
    /\ last.op = "start_session" /\ ~last.raised
    /\ last.before # PyNone /\ last.before.is_recording
    /\ Len(hist) = 2
    /\ ~hist[1].is_recording /\ hist[2].is_recording

\* ---------------------------------------------------------------------------
\* C26: the cache file and the success the handler reports
\* ---------------------------------------------------------------------------

\* C26: a call of handle_generate_test_cases that returns success=False has
\* left the cache file of its ticket as it was before the call: the file is
\* written by calls reported successful only, also when the test cases of a
\* ready payload hold no steps.
C26_FailedCallLeavesCache ==
    ( last.op = "generate" /\ ~last.out.result.success )
    => FileOf(cache, last.ticket) = last.pre

\* ---------------------------------------------------------------------------
\* C30: the ticket history under update_ticket_in_history
\* ---------------------------------------------------------------------------

OneEntryPerTicket(h) ==
    \A i \in 1..Len(h) : \A j \in 1..Len(h) : h[i].ticket_id = h[j].ticket_id => i = j
CountsMatch(h) == \A i \in 1..Len(h) : h[i].test_case_count = Len(h[i].test_cases)

\* h2 is h with the entry of a ticket it holds replaced where it stood
ReplacedInPlace(h, h2) ==
    /\ Len(h2) = Len(h)
    /\ \E i \in 1..Len(h) :
         /\ h2[i].ticket_id = h[i].ticket_id
         /\ \A j \in 1..Len(h) : j # i => h2[j] = h[j]

\* h2 is h with one entry added at the end, of a ticket h does not hold
AppendedNew(h, h2) ==
    /\ Len(h2) = Len(h) + 1
    /\ SubSeq(h2, 1, Len(h)) = h
    /\ \A i \in 1..Len(h) : h[i].ticket_id # h2[Len(h2)].ticket_id

\* C30: the history, empty at first, holds one entry per ticket id at most and
\* every entry's test_case_count is the length of its test_cases; a step that
\* changes it (other than emptying it) replaces the entry of a ticket present,
\* where it stood and with the other entries as they were, or appends the
\* entry of a ticket not present.
C30_HistoryHasOneEntryPerTicket ==
    [][ /\ OneEntryPerTicket(session'.ticket_history)
        /\ CountsMatch(session'.ticket_history)
        /\ \/ session'.ticket_history = session.ticket_history
           \/ session'.ticket_history = <<>>
           \/ ReplacedInPlace(session.ticket_history, session'.ticket_history)
           \/ AppendedNew(session.ticket_history, session'.ticket_history) ]_vars

\* two tickets in the history and the first one's entry replaced by the
\* regeneration that has just returned
C30_witness ==
    /\ Len(session.ticket_history) = 2
    /\ last.op = "regenerate" /\ last.out.result.success
    /\ session.current_ticket_id = session.ticket_history[1].ticket_id
    /\ session.ticket_history[1].test_cases = last.out.result.test_cases
    /\ session.ticket_history[1].test_case_count = Len(last.out.result.test_cases)
    /\ session.ticket_history[2].ticket_id # session.ticket_history[1].ticket_id

====
